---- MODULE Spec2Model ----
(***************************************************************************)
(* EinsatzJS / Shokan: a Capistrano-style release orchestrator.  The model *)
(* covers the remote project folder (releases/, shared/, the current link, *)
(* revisions.log) and the operations that act on it over one SSH session:  *)
(* deploy, rollback and switchRelease.                                     *)
(*                                                                         *)
(* The repository holds these orchestrators, all modelled:                 *)
(*   "Shokan"   src/lib/Shokan.js        (the class bin/shokan.js imports) *)
(*   "Einsatz"  src/unnamed/part_010     (lib/Einsatz.js) delegating to    *)
(*              GitDeployer of src/lib/deployer/AbstractDeployer.js        *)
(*   "EinsatzTiered"  the same Einsatz delegating to the GitDeployer of    *)
(*              src/unnamed/part_005     (GitDeployer.js, try/catch tiers) *)
(*   "Monolith" src/unnamed/part_007     (self-contained, event driven)    *)
(*                                                                         *)
(* Conventions.  A release token (the 14-character timestamp) is a clock   *)
(* value in 1..MaxTime; 0 stands for "none" (no link, empty token, absent  *)
(* file).  A remote command either exits 0 or fails; the choice is the     *)
(* environment's unless the file system state decides it.  Calls of the    *)
(* step runner written as a bare _runDeploymentStep(...) are taken to      *)
(* reach AbstractDeployer._runDeploymentStep; everything else (scoping of  *)
(* const/undeclared names, argument lists, the logger's methods, the       *)
(* moment an object captures a field) is as written.  Log output is not    *)
(* state, except the messages the lifecycle operations report.             *)
(***************************************************************************)
EXTENDS Integers, Sequences, FiniteSets, TLC

\* Bounds of the exploration.
MaxTime == 3
MaxOps == 3
MaxKeep == 3

\* this.releases = 5: the retention count every orchestrator is built with.
Releases == 5

Tokens == 1..MaxTime

\* The tokens a release directory can have: those of the clock, and later
\* ones on a project folder that has been deployed to for longer.
MaxStamp == 6

Stamps == 1..MaxStamp

\* The orchestrator drafts and the deploy-via keys tried.
Impls == {"Shokan", "Einsatz", "EinsatzTiered", "Monolith"}

\* Those that hand the pipeline to a strategy object.
Einsatzes == {"Einsatz", "EinsatzTiered"}
DeployVias == {"git", "ftp"}

\* deployerMapping: the keys with a strategy class.
deployerMapping == {"git", "copy", "remoteCache", "remoteSync"}

\* The strategy classes whose constructor calls super() before it touches
\* this; the constructor of the others throws a ReferenceError.
CallsSuper == {"git"}

\* new DeployerClass(...) returns a strategy object.
Constructs(via) == via \in deployerMapping \cap CallsSuper

VARIABLES
  \* ---- remote project folder
  sharedDirs,     \* directories that exist beside releases/<token>
  releases,       \* tokens with a directory releases/<token>
  mtime,          \* the release directories, most recently modified first
  repo,           \* tokens whose directory holds a clone of the repository
  revision,       \* tokens whose directory holds REVISION (= HEAD)
  revisionTime,   \* token -> content of REVISION_TIME (0: no such file)
  nested,         \* <<c, t>>: releases/c holds a link named t -> releases/t
  current,        \* target token of the current link (0: no link)
  revisionsLog,   \* the lines of revisions.log
  \* ---- the operation in progress
  op,             \* "idle", "deploy", "rollback", "switch", "releases"
  impl,           \* the orchestrator running it
  pc,             \* the step about to run
  deployVia,      \* the configured strategy key
  runToken,       \* this.revisionTime / timestamp of the run
  release,        \* the argument of switchRelease
  keepReleases,   \* this.releases
  session,        \* "none", "open", "closed"
  endCalls,       \* calls of conn.end() in this operation
  depConn,        \* the strategy object holds an established session
  depToken,       \* the token in the strategy object's releaseDir
  outcome,        \* "none", "pending", "resolved", "rejected": the promise
  handlerThrew,   \* the catch handler of deploy threw
  allOk,          \* every step of the operation so far succeeded
  lastOk,         \* the step that ran last succeeded
  envOk,          \* the connection and every command sent so far succeeded
  issued,         \* steps whose remote command was sent in this operation
  attempted,      \* the steps of this operation in the order they ran
  failed,         \* the steps of this operation that failed
  inFlight,       \* steps whose remote command was sent and has not closed
  releaseIds,     \* the list getReleaseIds resolved with
  reports,        \* messages the lifecycle operation logged
  pre,            \* current, releases and log when the operation started
  \* ---- environment
  now,            \* the clock, in token units
  opsDone,        \* operations started
  okRuns,         \* consecutive completed deploy runs with every step ok
  cfgRetention,   \* the retention count written in the project's config
  \* ---- the timestamp of deploy, on its own
  startedAt,      \* the instants at which deploy runs took their timestamp
  tokens,         \* the release tokens those runs got
  \* ---- the command line
  cli,            \* the switch command: where it is and what it did
  \* ---- the executor and the step runner, on their own
  exec,           \* one call: its inputs, what it settled with, its log
  \* ---- the public-resource linking step, on its own
  pub,            \* what shared/public holds, the commands sent, the result
  \* ---- the transfer of the Copy strategy, on its own
  xfer,           \* the local tree, the callbacks due, the promise
  \* ---- two deploy runs at once
  runs            \* run -> the step it is at, its token, how it went

fsVars == <<sharedDirs, releases, mtime, repo, revision, revisionTime,
            nested, current, revisionsLog>>
runVars == <<op, impl, pc, deployVia, runToken, release, keepReleases,
             session, endCalls, depConn, depToken, outcome, handlerThrew,
             allOk, lastOk, envOk, issued, attempted, failed, inFlight,
             releaseIds, reports, pre>>
clockVars == <<startedAt, tokens>>
stepVars == <<pub, xfer, runs>>
nonStepVars == <<fsVars, runVars, now, opsDone, okRuns, cfgRetention,
                 clockVars, cli, exec>>
unitVars == <<clockVars, exec, stepVars>>
envVars == <<now, opsDone, okRuns, cfgRetention, unitVars, cli>>
vars == <<fsVars, runVars, envVars>>

----------------------------------------------------------------------------
\* Sequences and listings.

Without(seq, t) == SelectSeq(seq, LAMBDA x : x # t)

\* A directory whose entries change becomes the most recently modified.
Touch(seq, t) == <<t>> \o Without(seq, t)

\* ls -d releases/*/ : the shell expands the glob in name order.
RECURSIVE SortedListing(_)
SortedListing(S) ==
  IF S = {} THEN <<>>
  ELSE LET m == CHOOSE x \in S : \A y \in S : x <= y
       IN <<m>> \o SortedListing(S \ {m})

\* Array.prototype.indexOf: zero based, -1 when absent.
IndexOf(seq, x) ==
  IF \E i \in 1..Len(seq) : seq[i] = x
  THEN (CHOOSE i \in 1..Len(seq) : seq[i] = x) - 1
  ELSE -1

\* ls -1t | tail -n +(keepCount+1): the entries after the first keepCount
\* of the listing by modification time.
CleanupVictims(order, keepCount) ==
  {order[i] : i \in {j \in 1..Len(order) : j > keepCount}}

\* The k greatest tokens of S.
TopK(S, k) == {t \in S : Cardinality({u \in S : u > t}) < k}

\* Text: a string is the sequence of its characters.

Digits == <<"0", "1", "2", "3", "4", "5", "6", "7", "8", "9">>

\* The length of a release token: the 14 of path.slice(... - 14, -1).
TokenWidth == 14

\* The name of the release directory of token t: YYYYMMDDHHMMSS, the
\* clock value in the last digit.
TokenText(t) ==
  <<"2", "0", "2", "4", "0", "1", "0", "1", "1", "2", "0", "0", "0">>
    \o <<Digits[t + 1]>>

\* projectFolder (deployTo of the configuration) followed by /releases/.
ReleasesPath ==
  <<"/", "a", "p", "p", "/", "r", "e", "l", "e", "a", "s", "e", "s", "/">>

\* String.prototype.slice(from, to) on zero-based positions, a negative
\* position counting from the end.
Slice(s, from, to) ==
  LET n == Len(s)
      a == IF from < 0 THEN (IF n + from < 0 THEN 0 ELSE n + from)
           ELSE (IF from > n THEN n ELSE from)
      b == IF to < 0 THEN (IF n + to < 0 THEN 0 ELSE n + to)
           ELSE (IF to > n THEN n ELSE to)
  IN IF a >= b THEN <<>> ELSE SubSeq(s, a + 1, b)

\* String.prototype.indexOf / lastIndexOf of one character: zero based,
\* -1 when the character does not occur.
FirstIndexOf(s, c) ==
  IF \E i \in DOMAIN s : s[i] = c
  THEN (CHOOSE i \in DOMAIN s : s[i] = c /\ \A j \in 1..(i - 1) : s[j] # c) - 1
  ELSE -1

LastIndexOf(s, c) ==
  IF \E i \in DOMAIN s : s[i] = c
  THEN (CHOOSE i \in DOMAIN s :
          s[i] = c /\ \A j \in (i + 1)..Len(s) : s[j] # c) - 1
  ELSE -1

\* String.prototype.replace(c, "") with a string pattern: the first
\* occurrence only.
ReplaceFirst(s, c) ==
  LET i == FirstIndexOf(s, c)
  IN IF i < 0 THEN s ELSE SubSeq(s, 1, i) \o SubSeq(s, i + 2, Len(s))

\* String.prototype.split(c): the pieces between the occurrences of c.
RECURSIVE Split(_, _)
Split(s, c) ==
  LET i == FirstIndexOf(s, c)
  IN IF i < 0 THEN <<s>>
     ELSE <<SubSeq(s, 1, i)>> \o Split(SubSeq(s, i + 2, Len(s)), c)

\* Date.prototype.toISOString of the instant d, s seconds and ms
\* milliseconds past 2024-01-01T12:00:00Z.
ToISOString(d) ==
  <<"2", "0", "2", "4", "-", "0", "1", "-", "0", "1", "T", "1", "2", ":",
    "0", "0", ":", "0">>
    \o <<Digits[d.s + 1], ".", "0", "0", Digits[d.ms + 1], "Z">>

\* The release token of a run: toISOString().replace(/[:\-T]/g, "")
\* .split(".")[0].
Timestamp(d) ==
  Split(SelectSeq(ToISOString(d), LAMBDA c : c \notin {":", "-", "T"}),
        ".")[1]

\* The output of ls -d <projectFolder>/releases/*/ for the directories of
\* S: one line per directory in name order, each ending in "/".
RECURSIVE Lines(_)
Lines(order) ==
  IF order = <<>> THEN <<>>
  ELSE ReleasesPath \o TokenText(Head(order)) \o <<"/", "\n">>
         \o Lines(Tail(order))

LsOutput(S) == Lines(SortedListing(S))

\* The resolved value of asyncWrapper: stdout, trimmed.
Trim(s) ==
  IF s # <<>> /\ s[Len(s)] = "\n" THEN SubSeq(s, 1, Len(s) - 1) ELSE s

\* getReleaseIds: split the response into lines, drop the blank ones, drop
\* the first "/" of each, and slice the 14 characters before the last "/".
ParseReleaseIds(response) ==
  LET lines == SelectSeq(Split(response, "\n"), LAMBDA l : l # <<>>)
      paths == [k \in DOMAIN lines |-> ReplaceFirst(lines[k], "/")]
  IN [k \in DOMAIN paths |->
        Slice(paths[k], LastIndexOf(paths[k], "/") - TokenWidth, -1)]

----------------------------------------------------------------------------
\* The deploy pipeline: which steps an orchestrator runs, in which order,
\* and which of them abort the run when they fail.

Prepare == <<"testAgentForwarding">>

Directories == <<"checkDirectories", "checkLinkedDirs", "makeLinkedDirs">>

Materialize == <<"createReleaseDir", "materialize">>

\* The monolith with the key "copy": the transfer, then mkdir -p.
LocalCopy == <<"gitLocalClone", "createReleaseDir">>

Later ==
  <<"setCurrentRevision", "setCurrentRevisionTime", "symlinkLinkedFiles",
    "symlinkLinkedDirs", "npmConfig", "npmInstall", "assetsPrecompile",
    "backupPackageJson", "migrate", "migrating", "symlinkRelease",
    "restartApplication", "cleanupOldReleases", "logRevision",
    "symlinkPublicResources">>

\* The steps after the session is established.
Pipeline(i, via) ==
  CASE i = "Shokan"   -> Prepare \o Directories \o Materialize \o Later
    [] i \in Einsatzes -> Prepare \o <<"instantiate">> \o Directories
                             \o Materialize \o Later
    [] i = "Monolith" -> Prepare \o Directories
                           \o (IF via = "git" THEN Materialize
                               ELSE IF via = "copy" THEN LocalCopy
                               ELSE <<>>)
                           \o Later

Succ(i, via, p) ==
  LET s == Pipeline(i, via)
      k == CHOOSE j \in 1..Len(s) : s[j] = p
  IN IF k = Len(s) THEN "finally" ELSE s[k + 1]

\* Steps wrapped in a try whose catch only logs.
BestEffort(i) ==
  CASE i = "Shokan"   -> {"symlinkLinkedFiles", "symlinkLinkedDirs",
                          "npmConfig", "npmInstall", "assetsPrecompile",
                          "backupPackageJson", "migrate", "migrating",
                          "symlinkRelease", "restartApplication",
                          "cleanupOldReleases", "logRevision",
                          "symlinkPublicResources"}
    [] i = "Einsatz"  -> {}
    [] i = "EinsatzTiered" ->
         {"symlinkLinkedFiles", "symlinkLinkedDirs", "npmConfig",
          "npmInstall", "assetsPrecompile", "backupPackageJson", "migrate",
          "migrating", "symlinkRelease", "restartApplication",
          "cleanupOldReleases", "logRevision", "symlinkPublicResources"}
    [] i = "Monolith" -> {"testAgentForwarding", "symlinkLinkedFiles",
                          "symlinkLinkedDirs", "npmInstall",
                          "restartApplication", "cleanupOldReleases",
                          "symlinkPublicResources"}

\* A pipeline whose catch blocks all only log.
FatalNever(i, p) == FALSE

Fatal(i, p) == p \notin BestEffort(i)

\* The session a step sends its command on: Einsatz hands the whole
\* pipeline to the strategy object, Shokan only the materialize step; the
\* strategy object uses the session it captured when it was constructed.
UsesDeployer(i, p) ==
  \/ i \in Einsatzes /\ p \notin {"testAgentForwarding", "instantiate"}
  \/ i = "Shokan" /\ p = "materialize"

CanExec(p) == session = "open" /\ (UsesDeployer(impl, p) => depConn)

\* The token in the release directory a step works on.
DirToken(p) == IF UsesDeployer(impl, p) THEN depToken ELSE runToken

\* createDeployer and the constructors: the retention count of the
\* orchestrator built from a configuration.
RetentionOf(configured) == Releases

----------------------------------------------------------------------------
\* Commands on the remote file system.

\* mkdir without -p: fails when a directory it is to make exists.
MkdirPlain(existing, dirs) ==
  [ok |-> existing \cap dirs = {}, dirs |-> existing \cup dirs]

\* A command that leaves only the directories it names.
MkdirOnly(existing, dirs) == [ok |-> TRUE, dirs |-> dirs]

\* mkdir -p: makes the directories that are missing and accepts the ones
\* that exist.
MkdirP(existing, dirs) == [ok |-> TRUE, dirs |-> existing \cup dirs]

\* ln -s releases/<t> current: creates the link when there is none; when
\* current resolves to a directory the new link is created inside it under
\* the name <t>; otherwise (the name is taken) the command fails.
LnS(t) ==
  IF current = 0
  THEN [ok |-> TRUE, current |-> t, nested |-> nested, mtime |-> mtime]
  ELSE IF current \in releases /\ <<current, t>> \notin nested
  THEN [ok |-> TRUE, current |-> current,
        nested |-> nested \cup {<<current, t>>},
        mtime |-> Touch(mtime, current)]
  ELSE [ok |-> FALSE, current |-> current, nested |-> nested,
        mtime |-> mtime]

\* A link command that re-points current only to a later release.
LnNewer(t) == IF t > current THEN t ELSE current

\* ln -sfn releases/<t> current: creates or replaces the link.
LnSfn(t) == t

\* rm -rf of the release directories in V.
RemoveReleases(V) ==
  /\ releases' = releases \ V
  /\ mtime' = SelectSeq(mtime, LAMBDA x : x \notin V)
  /\ repo' = repo \ V
  /\ revision' = revision \ V
  /\ revisionTime' = [t \in Stamps |-> IF t \in V THEN 0 ELSE revisionTime[t]]
  /\ nested' = {l \in nested : l[1] \notin V}

\* The switch command before it is invoked.
CliOff ==
  [pc |-> "off", impl |-> "Shokan", arg |-> <<>>, list |-> <<>>,
   asked |-> 0, calls |-> <<>>, events |-> {}]

\* No value: the option that is absent.
None == <<>>

\* An error value: its class and what it carries.
ErrorValue(class, code, stderr, task, step, timestamp) ==
  [class |-> class, code |-> code, stderr |-> stderr, task |-> task,
   step |-> step, timestamp |-> timestamp]

NoError == ErrorValue("none", None, None, None, None, None)

\* The public-resource linking step before it is called.
PubOff ==
  [pc |-> "off", token |-> 0, entries |-> <<>>, resources |-> <<>>,
   commands |-> <<>>, settled |-> "pending"]

\* The transfer of the Copy strategy before it is called.
XferOff ==
  [pc |-> "off", fn |-> "", remote |-> "absent",
   tree |-> [files |-> 0, sub |-> FALSE, subFiles |-> 0],
   remaining |-> [root |-> 0, sub |-> 0], due |-> {},
   cb |-> [root |-> 0, sub |-> 0], closed |-> {}, errors |-> 0,
   settled |-> "pending"]

\* The processes that deploy at the same time, and none of them running.
Runs == {"A", "B"}

RunsOff == [r \in Runs |-> [pc |-> "off", token |-> 0, ok |-> TRUE]]

\* The steps modelled on their own, before they are called.
StepsOff == pub = PubOff /\ xfer = XferOff /\ runs = RunsOff

\* The executor before it is called.
ExecOff ==
  [pc |-> "off", fn |-> "", code |-> 0, stdout |-> <<>>, stderr |-> <<>>,
   step |-> 0, settled |-> "pending", value |-> <<>>, error |-> NoError,
   log |-> <<>>]

----------------------------------------------------------------------------
Init ==
  /\ sharedDirs = {} /\ releases = {} /\ mtime = <<>> /\ repo = {}
  /\ revision = {} /\ revisionTime = [t \in Stamps |-> 0] /\ nested = {}
  /\ current = 0 /\ revisionsLog = <<>>
  /\ op = "idle" /\ impl = "Shokan" /\ pc = "idle" /\ deployVia = "git"
  /\ runToken = 0 /\ release = 0 /\ keepReleases = Releases
  /\ session = "none" /\ endCalls = 0 /\ depConn = FALSE /\ depToken = 0
  /\ outcome = "none" /\ handlerThrew = FALSE /\ allOk = TRUE
  /\ lastOk = TRUE /\ envOk = TRUE
  /\ issued = {} /\ attempted = <<>> /\ failed = {} /\ inFlight = {}
  /\ releaseIds = <<>> /\ reports = {}
  /\ pre = [current |-> 0, releases |-> {}, log |-> <<>>]
  /\ now = 1 /\ opsDone = 0 /\ okRuns = 0
  /\ cfgRetention \in {1, Releases}
  /\ startedAt = <<>> /\ tokens = <<>>
  /\ cli = CliOff
  /\ exec = ExecOff
  /\ StepsOff

\* The clock advances between operations.
Tick ==
  /\ op = "idle" /\ now < MaxTime
  /\ now' = now + 1
  /\ UNCHANGED <<fsVars, runVars, opsDone, okRuns, cfgRetention, unitVars,
                 cli>>

\* A fresh operation: nothing sent, nothing reported, state remembered.
Begin(o, i) ==
  /\ op = "idle" /\ opsDone < MaxOps
  /\ op' = o /\ impl' = i
  /\ opsDone' = opsDone + 1
  /\ session' = "none" /\ endCalls' = 0
  /\ handlerThrew' = FALSE /\ allOk' = TRUE /\ lastOk' = TRUE
  /\ envOk' = TRUE
  /\ issued' = {} /\ attempted' = <<>> /\ failed' = {} /\ inFlight' = {}
  /\ releaseIds' = <<>> /\ reports' = {}
  /\ pre' = [current |-> current, releases |-> releases, log |-> revisionsLog]
  /\ UNCHANGED <<fsVars, now, cfgRetention, unitVars>>

\* new Shokan(config) / new Einsatz(config), then deploy().  The
\* constructor of Shokan constructs the strategy object.
Deploy(i, via) ==
  /\ Begin("deploy", i)
  /\ deployVia' = via
  /\ keepReleases' = RetentionOf(cfgRetention)
  /\ release' = 0
  /\ depConn' = FALSE /\ depToken' = 0
  /\ runToken' = IF i = "Monolith" THEN now ELSE 0
  /\ IF i = "Shokan" /\ ~Constructs(via)
     THEN pc' = "done" /\ outcome' = "rejected"
     ELSE /\ pc' = "establishConnection"
          /\ outcome' = IF i = "Monolith" THEN "resolved" ELSE "pending"
  /\ okRuns' = IF i = "Shokan" /\ ~Constructs(via) THEN 0 ELSE okRuns
  /\ UNCHANGED cli

StartDeploy == \E i \in Impls, via \in DeployVias : Deploy(i, via)

\* rollback(): the handlers are registered, connect() is called and the
\* method returns.
StartRollback ==
  \E i \in {"Shokan", "Einsatz", "Monolith"} :
    /\ Begin("rollback", i)
    /\ pc' = "establishConnection" /\ outcome' = "resolved"
    /\ runToken' = 0 /\ release' = 0 /\ depConn' = FALSE /\ depToken' = 0
    /\ okRuns' = 0
    /\ UNCHANGED <<deployVia, keepReleases, cli>>

\* switchRelease(release): the handlers are registered, connect() is
\* called and the method returns.
SwitchRelease(i, t) ==
  /\ Begin("switch", i)
  /\ pc' = "establishConnection" /\ outcome' = "resolved"
  /\ runToken' = 0 /\ release' = t /\ depConn' = FALSE /\ depToken' = 0
  /\ okRuns' = 0
  /\ UNCHANGED <<deployVia, keepReleases>>

\* switchRelease(release), any token.
StartSwitch ==
  \E i \in {"Shokan", "Einsatz", "Monolith"}, t \in Tokens :
    SwitchRelease(i, t) /\ UNCHANGED cli

\* getReleaseIds(): a promise settled by the handlers of its own session.
GetReleaseIds(i) ==
  /\ Begin("releases", i)
  /\ pc' = "establishConnection" /\ outcome' = "pending"
  /\ runToken' = 0 /\ release' = 0 /\ depConn' = FALSE /\ depToken' = 0
  /\ okRuns' = 0
  /\ UNCHANGED <<deployVia, keepReleases>>

StartGetReleaseIds ==
  \E i \in {"Shokan", "Einsatz", "Monolith"} :
    GetReleaseIds(i) /\ UNCHANGED cli

\* The step that follows the "ready" event.
AfterConnect ==
  CASE op = "deploy" -> "testAgentForwarding"
    [] op = "rollback" /\ impl = "Einsatz" -> "rollbackGetReleases"
    [] op = "switch" /\ impl = "Einsatz" -> "switchGetCurrent"
    [] op = "releases" -> "getReleases"
    [] OTHER -> "finally"

\* The trace of the operation: step p ran and completed (done) or failed.
Record(p, done) ==
  /\ attempted' = Append(attempted, p)
  /\ failed' = IF done THEN failed ELSE failed \cup {p}

\* The session is established or the connection fails.  deploy of Shokan
\* and Einsatz awaits it inside the try and takes the timestamp afterwards;
\* the event-driven operations only log a connection error, getReleaseIds
\* rejects its promise with it.
establishConnection ==
  /\ pc = "establishConnection"
  /\ \E ok \in BOOLEAN :
       /\ session' = IF ok THEN "open" ELSE "none"
       /\ allOk' = ok /\ lastOk' = ok /\ envOk' = ok
       /\ pc' = IF ok THEN AfterConnect
                ELSE IF op = "deploy" /\ impl # "Monolith" THEN "catch"
                ELSE "done"
       /\ runToken' = IF ok /\ op = "deploy" /\ impl # "Monolith"
                      THEN now ELSE runToken
       /\ okRuns' = IF ok THEN okRuns ELSE 0
       /\ Record("establishConnection", ok)
       /\ outcome' = IF ~ok /\ op = "releases" THEN "rejected" ELSE outcome
  /\ UNCHANGED <<fsVars, op, impl, deployVia, release, keepReleases,
                 endCalls, depConn, depToken, handlerThrew, issued,
                 inFlight, releaseIds, reports, pre, now, opsDone,
                 cfgRetention, unitVars, cli>>

----------------------------------------------------------------------------
\* Steps of deploy.

\* What no pipeline step changes.
stepConst == <<op, impl, deployVia, runToken, release, keepReleases,
               outcome, handlerThrew, inFlight, releaseIds, reports, pre,
               envVars>>

\* Bookkeeping of step p, whose command completed (done) or did not: a
\* failed fatal step goes to the catch block, anything else to the next
\* step; the command is sent when the step has a session to send it on.
Goto(p, proceed) ==
  pc' = IF proceed \/ ~Fatal(impl, p) THEN Succ(impl, deployVia, p)
        ELSE "catch"

Sent(p) == issued' = IF CanExec(p) THEN issued \cup {p} ELSE issued

\* The environment's part in step p: ok is the fate of the command, which
\* counts only when the command is sent.
Env(p, ok) == envOk' = (envOk /\ (ok \/ ~CanExec(p)))

Step(p, done) ==
  /\ Goto(p, done)
  /\ Record(p, done)
  /\ allOk' = (allOk /\ done) /\ lastOk' = done
  /\ Sent(p)

\* A step whose command, besides its own work, re-points the current link
\* to the release directory it works in.
RelinkingStep(p) ==
  /\ op = "deploy" /\ pc = p
  /\ \E ok \in BOOLEAN :
       /\ Step(p, ok /\ CanExec(p)) /\ Env(p, ok)
       /\ current' = IF ok /\ CanExec(p) THEN DirToken(p) ELSE current
  /\ UNCHANGED <<sharedDirs, releases, mtime, repo, revision, revisionTime,
                 nested, revisionsLog, stepConst, session, endCalls,
                 depConn, depToken>>

\* A step that runs one remote command with no effect on the modelled
\* part of the project folder.
CommandStep(p) ==
  /\ op = "deploy" /\ pc = p
  /\ \E ok \in BOOLEAN : Step(p, ok /\ CanExec(p)) /\ Env(p, ok)
  /\ UNCHANGED <<fsVars, stepConst, session, endCalls, depConn, depToken>>

\* A step that only logs: it sends nothing and cannot fail.
LogOnlyStep(p) ==
  /\ op = "deploy" /\ pc = p
  /\ pc' = Succ(impl, deployVia, p)
  /\ lastOk' = TRUE
  /\ Record(p, TRUE)
  /\ UNCHANGED <<fsVars, stepConst, session, endCalls, depConn, depToken,
                 allOk, envOk, issued>>

\* ssh-add -l on the session.  The function of src/unnamed/part_002 awaits
\* the command; the method of the monolith calls conn.exec with callbacks
\* and returns, so the step is over while the command is still running.
testAgentForwarding ==
  \/ impl # "Monolith" /\ CommandStep("testAgentForwarding")
  \/ /\ impl = "Monolith"
     /\ op = "deploy" /\ pc = "testAgentForwarding"
     /\ Step("testAgentForwarding", CanExec("testAgentForwarding"))
     /\ inFlight' = IF CanExec("testAgentForwarding")
                    THEN inFlight \cup {"testAgentForwarding"}
                    ELSE inFlight
     /\ UNCHANGED <<fsVars, op, impl, deployVia, runToken, release,
                    keepReleases, outcome, handlerThrew, releaseIds,
                    reports, pre, envVars, session, endCalls, depConn,
                    depToken, envOk>>

\* The "close" event of a command left running: its exit status is logged
\* by the callback, outside the try blocks of the pipeline.
commandCloses ==
  /\ op = "deploy" /\ pc # "done" /\ inFlight # {}
  /\ \E c \in inFlight, ok \in BOOLEAN :
       /\ inFlight' = inFlight \ {c}
       /\ failed' = IF ok THEN failed ELSE failed \cup {c}
       /\ allOk' = (allOk /\ ok) /\ envOk' = (envOk /\ ok)
  /\ UNCHANGED <<fsVars, op, impl, pc, deployVia, runToken, release,
                 keepReleases, session, endCalls, depConn, depToken,
                 outcome, handlerThrew, lastOk, issued, attempted,
                 releaseIds, reports, pre, envVars>>

\* Einsatz: look the key up, construct the strategy object from the
\* orchestrator, which by now holds the session and the token.
instantiate ==
  /\ op = "deploy" /\ pc = "instantiate"
  /\ IF Constructs(deployVia)
     THEN /\ depConn' = (session = "open")
          /\ depToken' = runToken
          /\ pc' = Succ(impl, deployVia, "instantiate")
          /\ allOk' = allOk /\ lastOk' = TRUE
     ELSE /\ pc' = "catch" /\ allOk' = FALSE /\ lastOk' = FALSE
          /\ UNCHANGED <<depConn, depToken>>
  /\ UNCHANGED <<fsVars, stepConst, session, endCalls, envOk, issued,
                 attempted, failed>>

\* mkdir -p of directories beside the releases.
MakeDirs(p, dirs) ==
  /\ op = "deploy" /\ pc = p
  /\ \E ok \in BOOLEAN :
       LET r == MkdirP(sharedDirs, dirs)
           done == ok /\ CanExec(p) /\ r.ok
       IN
       /\ Step(p, done) /\ Env(p, ok)
       /\ sharedDirs' = IF done THEN r.dirs ELSE sharedDirs
  /\ UNCHANGED <<releases, mtime, repo, revision, revisionTime, nested,
                 current, revisionsLog, stepConst, session, endCalls,
                 depConn, depToken>>

\* The directories the command of a directory step names, with their
\* parents.  The monolith sends the command of checkLinkedDirs a second
\* time where makeLinkedDirs is due.
StepDirs(i, p) ==
  CASE p = "checkDirectories" -> {"shared", "releases"}
    [] p = "checkLinkedDirs" -> {"shared", "shared/public"}
    [] p = "makeLinkedDirs" ->
         IF i = "Monolith" THEN {"shared", "shared/public"}
         ELSE {"shared", "shared/cache", "shared/logs", "shared/secrets"}
    [] OTHER -> {"releases"}

checkDirectories ==
  MakeDirs("checkDirectories", StepDirs(impl, "checkDirectories"))

checkLinkedDirs ==
  MakeDirs("checkLinkedDirs", StepDirs(impl, "checkLinkedDirs"))

makeLinkedDirs == MakeDirs("makeLinkedDirs", StepDirs(impl, "makeLinkedDirs"))

\* mkdir -p releases/<token>; with an empty token only releases/ itself.
createReleaseDir ==
  /\ op = "deploy" /\ pc = "createReleaseDir"
  /\ \E ok \in BOOLEAN :
       LET t == DirToken("createReleaseDir")
           r == MkdirP(releases, IF t = 0 THEN {} ELSE {t})
           done == ok /\ CanExec("createReleaseDir") /\ r.ok
           fresh == done /\ t # 0 /\ t \notin releases
       IN
       /\ Step("createReleaseDir", done) /\ Env("createReleaseDir", ok)
       /\ sharedDirs' = IF done
                        THEN sharedDirs \cup StepDirs(impl, "createReleaseDir")
                        ELSE sharedDirs
       /\ releases' = IF done THEN r.dirs ELSE releases
       /\ mtime' = IF fresh THEN <<t>> \o mtime ELSE mtime
  /\ UNCHANGED <<repo, revision, revisionTime, nested, current,
                 revisionsLog, stepConst, session, endCalls, depConn,
                 depToken>>

\* git clone into releases/<t> needs an empty or absent directory.
CanClone(t) == t # 0 /\ t \notin repo /\ ~\E l \in nested : l[1] = t

\* The command the Git strategy sends.
GitCommand(pull) == IF pull THEN "gitPull" ELSE "gitClone"

\* The strategy's materialization.  The Git strategy asks the local file
\* system whether releaseDir/.git exists and pulls or clones; the monolith
\* compares the answer with "exists" and always clones, and on a failure
\* logs, ends the session and returns normally.
materialize ==
  /\ op = "deploy" /\ pc = "materialize"
  /\ \E ok \in BOOLEAN, repoExists \in BOOLEAN :
       LET t == DirToken("materialize")
           pull == repoExists /\ impl # "Monolith"
           done == /\ ok /\ CanExec("materialize")
                   /\ IF pull THEN t \in repo ELSE CanClone(t)
           swallowed == impl = "Monolith" /\ ~done
       IN
       /\ Goto("materialize", done \/ swallowed)
       /\ issued' = IF CanExec("materialize")
                    THEN issued \cup {"materialize", GitCommand(pull)}
                    ELSE issued
       /\ Env("materialize", ok /\ (impl = "Monolith" \/ ~repoExists))
       /\ allOk' = (allOk /\ done) /\ lastOk' = done
       /\ repo' = IF done THEN repo \cup {t} ELSE repo
       /\ releases' = IF done THEN releases \cup {t} ELSE releases
       /\ mtime' = IF done THEN Touch(mtime, t) ELSE mtime
       /\ attempted' = attempted \o (IF swallowed
                                      THEN <<"materialize", "disconnect">>
                                      ELSE <<"materialize">>)
       /\ failed' = IF done THEN failed ELSE failed \cup {"materialize"}
       /\ session' = IF swallowed THEN "closed" ELSE session
       /\ endCalls' = IF swallowed THEN endCalls + 1 ELSE endCalls
  /\ UNCHANGED <<sharedDirs, revision, revisionTime, nested, current,
                 revisionsLog, stepConst, depConn, depToken>>

\* git rev-parse HEAD in the release directory, then echo > REVISION.
setCurrentRevision ==
  /\ op = "deploy" /\ pc = "setCurrentRevision"
  /\ \E okParse \in BOOLEAN, okWrite \in BOOLEAN :
       LET t == DirToken("setCurrentRevision")
           done == /\ okParse /\ okWrite /\ CanExec("setCurrentRevision")
                   /\ t \in repo
       IN
       /\ Step("setCurrentRevision", done)
       /\ Env("setCurrentRevision", okParse /\ okWrite)
       /\ revision' = IF done THEN revision \cup {t} ELSE revision
  /\ UNCHANGED <<sharedDirs, releases, mtime, repo, revisionTime, nested,
                 current, revisionsLog, stepConst, session, endCalls,
                 depConn, depToken>>

\* echo <revisionTime> > releaseDir/REVISION_TIME.
setCurrentRevisionTime ==
  /\ op = "deploy" /\ pc = "setCurrentRevisionTime"
  /\ \E ok \in BOOLEAN :
       LET t == DirToken("setCurrentRevisionTime")
           done == ok /\ CanExec("setCurrentRevisionTime") /\ t \in releases
       IN
       /\ Step("setCurrentRevisionTime", done)
       /\ Env("setCurrentRevisionTime", ok)
       /\ revisionTime' = IF done THEN [revisionTime EXCEPT ![t] = t]
                          ELSE revisionTime
  /\ UNCHANGED <<sharedDirs, releases, mtime, repo, revision, nested,
                 current, revisionsLog, stepConst, session, endCalls,
                 depConn, depToken>>

symlinkLinkedFiles == CommandStep("symlinkLinkedFiles")

symlinkLinkedDirs == CommandStep("symlinkLinkedDirs")

npmConfig == LogOnlyStep("npmConfig")

npmInstall == CommandStep("npmInstall")

assetsPrecompile == LogOnlyStep("assetsPrecompile")

backupPackageJson == LogOnlyStep("backupPackageJson")

migrate == LogOnlyStep("migrate")

migrating == LogOnlyStep("migrating")

\* Promote: ln -sfn releaseDir current.
symlinkRelease ==
  /\ op = "deploy" /\ pc = "symlinkRelease"
  /\ \E ok \in BOOLEAN :
       LET done == ok /\ CanExec("symlinkRelease") IN
       /\ Step("symlinkRelease", done) /\ Env("symlinkRelease", ok)
       /\ current' = IF done THEN LnSfn(DirToken("symlinkRelease"))
                     ELSE current
  /\ UNCHANGED <<sharedDirs, releases, mtime, repo, revision, revisionTime,
                 nested, revisionsLog, stepConst, session, endCalls,
                 depConn, depToken>>

restartApplication == CommandStep("restartApplication")

\* cd releases && ls -1t | tail -n +(keepCount+1) | xargs rm -rf, with
\* this.releases as keepCount (the monolith passes 5).
cleanupOldReleases ==
  /\ op = "deploy" /\ pc = "cleanupOldReleases"
  /\ \E ok \in BOOLEAN :
       LET done == /\ ok /\ CanExec("cleanupOldReleases")
                   /\ "releases" \in sharedDirs
           keepCount == IF impl = "Monolith" THEN Releases ELSE keepReleases
       IN
       /\ Step("cleanupOldReleases", done)
       /\ Env("cleanupOldReleases", ok)
       /\ IF done THEN RemoveReleases(CleanupVictims(mtime, keepCount))
          ELSE UNCHANGED <<releases, mtime, repo, revision, revisionTime,
                           nested>>
  /\ UNCHANGED <<sharedDirs, current, revisionsLog, stepConst, session,
                 endCalls, depConn, depToken>>

\* echo <line> > file: the file holds the line and nothing else.
WriteLine(log, line) == <<line>>

\* echo <line> >> file: the line is added after the content of the file.
AppendLine(log, line) == Append(log, line)

\* The line appended to revisions.log by a deploy.
DeployEntry(t) == [kind |-> "deployed", prior |-> 0, release |-> t]

\* echo "Branch ... deployed as release <revisionTime> ..." >> revisions.log.
\* Shokan calls logRevision(conn, releaseDir, 1, connectionMessage), and
\* logRevision reads the undeclared stepNumber before it sends anything.
logRevision ==
  /\ op = "deploy" /\ pc = "logRevision"
  /\ \E ok \in BOOLEAN :
       LET done == ok /\ CanExec("logRevision") /\ impl # "Shokan" IN
       /\ Goto("logRevision", done)
       /\ Record("logRevision", done)
       /\ Env("logRevision", ok \/ impl = "Shokan")
       /\ allOk' = (allOk /\ done) /\ lastOk' = done
       /\ issued' = IF CanExec("logRevision") /\ impl # "Shokan"
                    THEN issued \cup {"logRevision"} ELSE issued
       /\ revisionsLog' =
            IF done
            THEN AppendLine(revisionsLog,
                            DeployEntry(DirToken("logRevision")))
            ELSE revisionsLog
  /\ UNCHANGED <<sharedDirs, releases, mtime, repo, revision, revisionTime,
                 nested, current, stepConst, session, endCalls, depConn,
                 depToken>>

symlinkPublicResources == CommandStep("symlinkPublicResources")

\* The catch block of deploy.  Shokan calls the undefined errorhandler,
\* Einsatz calls handleError(task, error), whose third parameter it then
\* dereferences: both handlers throw.  The monolith logs.
CatchHandler ==
  /\ op = "deploy" /\ pc = "catch"
  /\ handlerThrew' = (impl # "Monolith")
  /\ pc' = "finally"
  /\ UNCHANGED <<fsVars, op, impl, deployVia, runToken, release,
                 keepReleases, session, endCalls, depConn, depToken,
                 outcome, allOk, lastOk, envOk, issued, attempted, failed,
                 inFlight, releaseIds, reports, pre, envVars>>

\* The session after the finally block: conn.end() when there is a
\* connection object, whatever happened before.
SessionAfterFinally(sess, threw) == IF sess = "none" THEN "none" ELSE "closed"

\* finally { conn.end() }, then the operation is over.
Finally ==
  /\ pc = "finally"
  /\ session' = SessionAfterFinally(session, handlerThrew)
  /\ endCalls' = IF session = "none" THEN endCalls ELSE endCalls + 1
  /\ outcome' = IF outcome # "pending" THEN outcome
                ELSE IF handlerThrew THEN "rejected" ELSE "resolved"
  /\ okRuns' = IF op = "deploy" /\ allOk THEN okRuns + 1 ELSE 0
  /\ pc' = "done"
  /\ attempted' = IF session = "none" THEN attempted
                  ELSE Append(attempted, "disconnect")
  /\ inFlight' = {}
  /\ UNCHANGED <<fsVars, op, impl, deployVia, runToken, release,
                 keepReleases, depConn, depToken, handlerThrew, allOk,
                 lastOk, envOk, issued, failed, releaseIds, reports, pre,
                 now, opsDone, cfgRetention, unitVars, cli>>

\* The caller has seen the result; the next operation may start.
Return ==
  /\ pc = "done"
  /\ op' = "idle" /\ pc' = "idle" /\ impl' = "Shokan" /\ deployVia' = "git"
  /\ runToken' = 0 /\ release' = 0 /\ keepReleases' = Releases
  /\ session' = "none" /\ endCalls' = 0 /\ depConn' = FALSE /\ depToken' = 0
  /\ outcome' = "none" /\ handlerThrew' = FALSE /\ allOk' = TRUE
  /\ lastOk' = TRUE /\ envOk' = TRUE
  /\ issued' = {} /\ attempted' = <<>> /\ failed' = {} /\ inFlight' = {}
  /\ releaseIds' = <<>> /\ reports' = {}
  /\ pre' = [current |-> 0, releases |-> {}, log |-> <<>>]
  /\ UNCHANGED <<fsVars, envVars>>

----------------------------------------------------------------------------
\* rollback and switchRelease of Einsatz.  (Those of Shokan are stubs: the
\* ready handler holds an empty try block and the finally block.)

\* What the stages of the lifecycle operations leave alone.
stageConst == <<op, impl, deployVia, runToken, release, keepReleases,
                session, endCalls, depConn, depToken, outcome, handlerThrew,
                attempted, failed, inFlight, releaseIds, pre, envVars>>

\* fs.realpathSync(projectFolder/current) on the machine that runs the
\* tool: fs is not bound in the module, so the call throws; bound, it
\* would resolve the path on the local machine.  0: it throws.
LocalRealpath == {0} \cup Tokens

\* The methods of actionLogger.
actionLoggerMethods == {"info", "success", "error"}

\* Stage 1 of rollback: resolve the current release, list the releases,
\* find the current one in the list.
\*   index 0 or -1: the message goes to actionLogger.log and the handler
\*     returns (through the finally blocks); without such a method the
\*     call throws instead;
\*   index > 0: previousRelease is assigned without being declared, which
\*     throws in a module.
\* The catch block reports what was thrown, or that the lookup or the
\* listing failed, and the handler goes on to stage 2.
rollbackGetReleases ==
  /\ op = "rollback" /\ pc = "rollbackGetReleases"
  /\ \E loc \in LocalRealpath, ok \in BOOLEAN :
       LET sends == loc # 0 /\ session = "open"
           listed == sends /\ ok /\ releases # {}
           idx == IndexOf(SortedListing(releases), loc)
           early == listed /\ idx <= 0 /\ "log" \in actionLoggerMethods
       IN
       /\ issued' = IF sends THEN issued \cup {"rollbackGetReleases"}
                    ELSE issued
       /\ reports' =
            reports \cup
              {IF ~early THEN "Error getting releases"
               ELSE IF idx = 0 THEN "Nothing to rollback to"
               ELSE "Current release not found in the list"}
       /\ allOk' = FALSE /\ lastOk' = early
       /\ envOk' = (envOk /\ (ok \/ ~sends))
       /\ pc' = IF early THEN "finally" ELSE "rollbackLink"
  /\ UNCHANGED <<fsVars, stageConst>>

\* Stage 2 of rollback: the command text reads previousRelease, which no
\* scope declares, so nothing is sent.
rollbackLink ==
  /\ op = "rollback" /\ pc = "rollbackLink"
  /\ reports' = reports \cup {"Error symlinking previous release"}
  /\ lastOk' = FALSE
  /\ pc' = "rollbackLog"
  /\ UNCHANGED <<fsVars, stageConst, allOk, envOk, issued>>

\* Stage 3 of rollback: the log line reads currentRelease, a const of the
\* try block of stage 1, so nothing is sent.
rollbackLog ==
  /\ op = "rollback" /\ pc = "rollbackLog"
  /\ reports' = reports \cup {"Error writing revisions log"}
  /\ lastOk' = FALSE
  /\ pc' = "finally"
  /\ UNCHANGED <<fsVars, stageConst, allOk, envOk, issued>>

\* Stage 1 of switchRelease: the local lookup, used for a log line only.
switchGetCurrent ==
  /\ op = "switch" /\ pc = "switchGetCurrent"
  /\ \E loc \in LocalRealpath :
       /\ reports' = IF loc = 0
                     THEN reports \cup {"Error getting current release"}
                     ELSE reports
       /\ allOk' = (allOk /\ loc # 0) /\ lastOk' = (loc # 0)
  /\ pc' = "switchLink"
  /\ UNCHANGED <<fsVars, stageConst, envOk, issued>>

\* Stage 2 of switchRelease: ln -s releases/<release> current.
switchLink ==
  /\ op = "switch" /\ pc = "switchLink"
  /\ \E ok \in BOOLEAN :
       LET sends == session = "open"
           r == LnS(release)
           done == sends /\ ok /\ r.ok
       IN
       /\ issued' = IF sends THEN issued \cup {"switchLink"} ELSE issued
       /\ current' = IF done THEN r.current ELSE current
       /\ nested' = IF done THEN r.nested ELSE nested
       /\ mtime' = IF done THEN r.mtime ELSE mtime
       /\ reports' = IF done THEN reports
                     ELSE reports \cup {"Error symlinking requested release"}
       /\ allOk' = (allOk /\ done) /\ lastOk' = done
       /\ envOk' = (envOk /\ (ok \/ ~sends))
  /\ pc' = "switchLog"
  /\ UNCHANGED <<sharedDirs, releases, repo, revision, revisionTime,
                 revisionsLog, stageConst>>

\* Stage 3 of switchRelease: the log line reads currentRelease, a const of
\* the try block of stage 1, so nothing is sent.
switchLog ==
  /\ op = "switch" /\ pc = "switchLog"
  /\ reports' = reports \cup {"Error writing revisions log"}
  /\ allOk' = FALSE /\ lastOk' = FALSE
  /\ pc' = "finally"
  /\ UNCHANGED <<fsVars, stageConst, envOk, issued>>

\* The ready handler of getReleaseIds: ls -d releases/*/ exits non-zero
\* when the pattern matches nothing; the response is parsed and the promise
\* resolved with the list, or rejected with what was thrown.  Shokan calls
\* this.asyncWrapper, which the class does not have.
getReleases ==
  /\ op = "releases" /\ pc = "getReleases"
  /\ \E ok \in BOOLEAN :
       LET sends == impl \in {"Einsatz", "Monolith"} /\ session = "open"
           listed == sends /\ ok /\ releases # {}
       IN
       /\ issued' = IF sends THEN issued \cup {"getReleases"} ELSE issued
       /\ releaseIds' = IF listed
                        THEN ParseReleaseIds(Trim(LsOutput(releases)))
                        ELSE <<>>
       /\ outcome' = IF listed THEN "resolved" ELSE "rejected"
       /\ allOk' = (allOk /\ listed) /\ lastOk' = listed
       /\ envOk' = (envOk /\ (ok \/ ~sends))
       /\ Record("getReleases", listed)
  /\ pc' = "finally"
  /\ UNCHANGED <<fsVars, op, impl, deployVia, runToken, release,
                 keepReleases, session, endCalls, depConn, depToken,
                 handlerThrew, inFlight, reports, pre, envVars>>

----------------------------------------------------------------------------
Next ==
  \/ Tick
  \/ StartDeploy
  \/ StartRollback
  \/ StartSwitch
  \/ StartGetReleaseIds
  \/ establishConnection
  \/ testAgentForwarding
  \/ commandCloses
  \/ instantiate
  \/ checkDirectories
  \/ checkLinkedDirs
  \/ makeLinkedDirs
  \/ createReleaseDir
  \/ materialize
  \/ setCurrentRevision
  \/ setCurrentRevisionTime
  \/ symlinkLinkedFiles
  \/ symlinkLinkedDirs
  \/ npmConfig
  \/ npmInstall
  \/ assetsPrecompile
  \/ backupPackageJson
  \/ migrate
  \/ migrating
  \/ symlinkRelease
  \/ restartApplication
  \/ cleanupOldReleases
  \/ logRevision
  \/ symlinkPublicResources
  \/ CatchHandler
  \/ Finally
  \/ Return
  \/ rollbackGetReleases
  \/ rollbackLink
  \/ rollbackLog
  \/ switchGetCurrent
  \/ switchLink
  \/ switchLog
  \/ getReleases

Spec == Init /\ [][Next]_vars

----------------------------------------------------------------------------
\* The cleanup function on its own: cleanupOldReleases(conn, projectFolder,
\* keepCount, ...) called between operations with any keepCount, its
\* command succeeding.
CleanupCall ==
  /\ op = "idle" /\ "releases" \in sharedDirs
  /\ \E k \in 0..MaxKeep :
       /\ keepReleases' = k
       /\ RemoveReleases(CleanupVictims(mtime, k))
  /\ op' = "cleanup" /\ pc' = "done"
  /\ pre' = [current |-> current, releases |-> releases, log |-> revisionsLog]
  /\ UNCHANGED <<sharedDirs, current, revisionsLog, impl, deployVia,
                 runToken, release, session, endCalls, depConn, depToken,
                 outcome, handlerThrew, allOk, lastOk, envOk, issued,
                 attempted, failed, inFlight, releaseIds, reports,
                 envVars>>

NextCleanup == Next \/ CleanupCall

SpecCleanup == Init /\ [][NextCleanup]_vars

----------------------------------------------------------------------------
\* Properties.

\* The release that precedes t in the history S ordered by token.
PreviousOf(S, t) == SortedListing(S)[IndexOf(SortedListing(S), t)]

\* Operation o ran to its end on an established session with every
\* command it sent succeeding.
Ran(o) == op = o /\ pc = "done" /\ session = "closed" /\ envOk

\* The same for the lifecycle operations of Einsatz, the ones with a body.
RanEinsatz(o) == Ran(o) /\ impl = "Einsatz"

\* C1: after cleanup(k) succeeds at most k release directories remain and
\* they are exactly the k with the greatest tokens, whatever the
\* modification times of the directories are.
C1_CleanupKeepsNewestByToken ==
  (op = "cleanup" /\ pc = "done") =>
    /\ Cardinality(releases) <= keepReleases
    /\ releases = TopK(pre.releases, keepReleases)

\* C2: with the current link on the release at position i > 0 of the
\* history, rollback() leaves it on the release at position i-1.
C2_RollbackToPrevious ==
  (/\ RanEinsatz("rollback")
   /\ IndexOf(SortedListing(pre.releases), pre.current) > 0)
    => current = PreviousOf(pre.releases, pre.current)

\* C3: when the current release is the oldest of the history, rollback()
\* sends no link command, leaves link, directories and log as they were,
\* and reports that there is nothing to roll back to.
C3_RollbackOldestNoop ==
  (/\ RanEinsatz("rollback")
   /\ IndexOf(SortedListing(pre.releases), pre.current) = 0)
    => /\ "rollbackLink" \notin issued
       /\ current = pre.current
       /\ releases = pre.releases
       /\ revisionsLog = pre.log
       /\ "Nothing to rollback to" \in reports

\* C4: when the current link names a token that is not in the listed
\* history, rollback() leaves the link alone and reports the inconsistency.
C4_RollbackUnknownCurrent ==
  (/\ RanEinsatz("rollback")
   /\ pre.current # 0 /\ pre.current \notin pre.releases)
    => /\ current = pre.current
       /\ "Current release not found in the list" \in reports

\* The line a switch from release a to release b appends to the log.
SwitchEntry(a, b) == [kind |-> "switched", prior |-> a, release |-> b]

\* C5: for a token of the history and any prior state of the link,
\* switchRelease(token) leaves the link on releases/<token> and appends
\* exactly one log entry naming the prior and the new token.
C5_SwitchRepointsAndLogs ==
  (RanEinsatz("switch") /\ release \in pre.releases)
    => /\ current = release
       /\ revisionsLog = Append(pre.log, SwitchEntry(pre.current, release))

\* C6: switchRelease(token) with a token that has no directory still
\* re-points the link to releases/<token>, leaving it dangling.
C6_SwitchUnknownDangles ==
  (/\ RanEinsatz("switch") /\ release \notin pre.releases
   /\ "switchLink" \in issued
   /\ "Error symlinking requested release" \notin reports)
    => current = release /\ current \notin releases

\* The target of the link command of the step at pc.
LinkTarget == IF pc = "switchLink" THEN release ELSE DirToken(pc)

\* C7: every re-pointing of the current link (Promote, rollback, switch)
\* is one link-or-replace command: an existing link never goes missing,
\* and when the command succeeds the link names the new target, whatever
\* it named before.
C7_RepointIsLinkOrReplace ==
  [][ /\ (current # 0 => current' # 0)
      /\ (/\ pc \in {"symlinkRelease", "rollbackLink", "switchLink"}
          /\ pc' # pc /\ lastOk')
           => current' = LinkTarget ]_vars

\* C8: a Git deploy on empty releases/ in which every step succeeds leaves
\* exactly one directory releases/<token>, holding REVISION with HEAD and
\* REVISION_TIME with the token, the current link on it, and one new line
\* in revisions.log.
C8_GitDeployEndToEnd ==
  (Ran("deploy") /\ deployVia = "git" /\ pre.releases = {})
    => /\ runToken \in Tokens
       /\ releases = {runToken}
       /\ runToken \in revision
       /\ revisionTime[runToken] = runToken
       /\ current = runToken
       /\ Len(revisionsLog) = Len(pre.log) + 1

\* C9: cleanup keeps the configured number of releases: with retention 1,
\* after two successful deploy runs in a row releases/ holds exactly the
\* directory of the second run and the current link is on it.
C9_ConfiguredRetention ==
  (op = "deploy" /\ pc = "done" /\ allOk /\ okRuns >= 2 /\ cfgRetention = 1)
    => releases = {runToken} /\ current = runToken

\* C10: in a deploy run whose session was established, the session is
\* closed by the time deploy() has returned, on every exit path.
C10_SessionClosedOnReturn ==
  (op = "deploy" /\ session # "none" /\ outcome \in {"resolved", "rejected"})
    => session = "closed"

----------------------------------------------------------------------------
\* The tiers of the deploy pipeline.

\* The early steps: the directories and the release directory.
EarlySteps ==
  {"checkDirectories", "checkLinkedDirs", "makeLinkedDirs",
   "createReleaseDir"}

\* The later-stage steps, from the linking of shared files on.
LaterSteps ==
  {"symlinkLinkedFiles", "symlinkLinkedDirs", "npmInstall",
   "symlinkRelease", "restartApplication", "cleanupOldReleases",
   "logRevision", "symlinkPublicResources"}

\* The step that ran last, and the one before it.
LastStep == IF attempted = <<>> THEN "" ELSE attempted[Len(attempted)]

StepBeforeLast ==
  IF Len(attempted) < 2 THEN "" ELSE attempted[Len(attempted) - 1]

\* C11: when an early step of deploy fails the pipeline aborts: the failed
\* step is the last one attempted, and what follows is the closing of the
\* session.
C11_EarlyFailureAborts ==
  \A e \in EarlySteps :
    (op = "deploy" /\ e \in failed) =>
      \/ LastStep = e /\ pc \in {"catch", "finally"}
      \/ /\ StepBeforeLast = e /\ LastStep = "disconnect"
         /\ pc = "done" /\ session = "closed" /\ endCalls = 1

\* A run that ended on a failed early step.
C11_Witness ==
  /\ op = "deploy" /\ pc = "done" /\ session = "closed"
  /\ StepBeforeLast = "createReleaseDir" /\ "createReleaseDir" \in failed
  /\ "checkDirectories" \in issued /\ "materialize" \notin issued

\* The steps that ran in this operation.
Attempted == {attempted[k] : k \in DOMAIN attempted}

\* The steps the pipeline holds after step p.
StepsAfter(p) ==
  LET s == Pipeline(impl, deployVia)
  IN {s[j] : j \in {k \in DOMAIN s : \E m \in 1..(k - 1) : s[m] = p}}

\* C12: a failed later-stage step does not stop the pipeline: the next
\* step of the pipeline follows it, and by the end of the run every step
\* after it has been attempted.
C12_LaterFailureContinues ==
  \A l \in LaterSteps :
    (op = "deploy" /\ l \in failed) =>
      /\ LastStep = l => pc = Succ(impl, deployVia, l)
      /\ pc = "done" => StepsAfter(l) \subseteq Attempted

\* The one order of the steps of a deploy run, from Connect to Disconnect.
StepOrder ==
  <<"establishConnection", "testAgentForwarding", "instantiate",
    "checkDirectories", "checkLinkedDirs", "makeLinkedDirs",
    "createReleaseDir", "materialize", "setCurrentRevision",
    "setCurrentRevisionTime", "symlinkLinkedFiles", "symlinkLinkedDirs",
    "npmConfig", "npmInstall", "assetsPrecompile", "backupPackageJson",
    "migrate", "migrating", "symlinkRelease", "restartApplication",
    "cleanupOldReleases", "logRevision", "symlinkPublicResources",
    "disconnect">>

Rank(p) == CHOOSE k \in DOMAIN StepOrder : StepOrder[k] = p

\* C13: the steps of a deploy run are attempted in the one fixed order,
\* none repeated or reordered; Promote is attempted only after the source
\* was materialized and stamped successfully, Cleanup only after Promote
\* was attempted.
C13_FixedStepOrder ==
  op = "deploy" =>
    /\ \A j, k \in DOMAIN attempted :
         j < k => Rank(attempted[j]) < Rank(attempted[k])
    /\ "symlinkRelease" \in Attempted =>
         {"materialize", "setCurrentRevision", "setCurrentRevisionTime"}
           \subseteq (Attempted \ failed)
    /\ "cleanupOldReleases" \in Attempted => "symlinkRelease" \in Attempted

\* C14: a deploy-via key without a strategy is rejected before anything
\* remote is touched: no command is sent, the releases, the current link
\* and the log stay as they were, and the run ends rejected.
C14_UnknownKeyRejectedEarly ==
  (op = "deploy" /\ deployVia \notin deployerMapping) =>
    /\ issued = {}
    /\ releases = pre.releases /\ current = pre.current
    /\ revisionsLog = pre.log
    /\ pc = "done" => outcome = "rejected"

\* C15: during a deploy run a command is sent only when no earlier command
\* is still running on the session, so at most one is in flight.
C15_OneCommandInFlight ==
  [][ /\ (op = "deploy" /\ issued' # issued) => inFlight = {}
      /\ Cardinality(inFlight') <= 1 ]_vars

\* bin/shokan.js: the action awaits deploy() and catches nothing, so a
\* rejected promise ends the process with status 1, a resolved one with 0.
ExitStatus(result) == IF result = "rejected" THEN 1 ELSE 0

\* The run met one of the fatal errors: no connection, no strategy for the
\* key, or a failed early step.
FatalError ==
  \/ "establishConnection" \in failed
  \/ deployVia \notin deployerMapping
  \/ EarlySteps \cap failed # {}

\* C16: a deploy run ended by a fatal error makes the process exit with a
\* non-zero status; a run without any failure exits with status zero.
C16_ExitStatus ==
  (op = "deploy" /\ pc = "done") =>
    /\ FatalError => ExitStatus(outcome) # 0
    /\ (failed = {} /\ ~FatalError) => ExitStatus(outcome) = 0

ExpectedReleaseIds ==
  [k \in 1..Cardinality(releases) |-> TokenText(SortedListing(releases)[k])]

\* C19: getReleaseIds() returns one entry per release directory, each the
\* directory's 14-character token, in listing order; the empty list when
\* there is no release.
C19_ReleaseIdsAreTheTokens ==
  (op = "releases" /\ pc = "done" /\ session = "closed" /\ envOk) =>
    outcome = "resolved" /\ releaseIds = ExpectedReleaseIds

----------------------------------------------------------------------------
\* The timestamp of deploy on its own: successive runs, each taking its
\* token at an instant later than the one before.

MaxSecond == 2
MaxMilli == 2
MaxRuns == 3

Instants == [s : 0..MaxSecond, ms : 0..MaxMilli]

Earlier(a, b) == a.s < b.s \/ (a.s = b.s /\ a.ms < b.ms)

TimestampRun ==
  /\ Len(startedAt) < MaxRuns
  /\ \E d \in Instants :
       /\ startedAt # <<>> => Earlier(startedAt[Len(startedAt)], d)
       /\ startedAt' = Append(startedAt, d)
       /\ tokens' = Append(tokens, Timestamp(d))
  /\ UNCHANGED <<fsVars, runVars, now, opsDone, okRuns, cfgRetention, cli,
                 exec, stepVars>>

NextTimestamp == TimestampRun

SpecTimestamp == Init /\ [][NextTimestamp]_vars

\* The order of two texts of digits of the same length.
DigitValue(c) == (CHOOSE i \in DOMAIN Digits : Digits[i] = c) - 1

TextLess(a, b) ==
  \E i \in DOMAIN a :
    /\ i \in DOMAIN b
    /\ DigitValue(a[i]) < DigitValue(b[i])
    /\ \A j \in 1..(i - 1) : a[j] = b[j]

\* C18: of two deploy runs started at distinct times the later one gets a
\* strictly greater 14-character token, so no two runs share a token.
C18_TokensStrictlyIncrease ==
  \A j, k \in DOMAIN tokens :
    j < k => /\ Len(tokens[k]) = TokenWidth
             /\ TextLess(tokens[j], tokens[k])

----------------------------------------------------------------------------
\* The directories step p is to make exist already.
AlreadyMade(p) ==
  /\ StepDirs(impl, p) \subseteq sharedDirs
  /\ p = "createReleaseDir" =>
       DirToken(p) # 0 /\ DirToken(p) \in releases

----------------------------------------------------------------------------
\* The switch command of the command line: switchVersion and
\* promptUserSelection of bin/shokan.js, which builds a Shokan, and the
\* same two functions at the end of the monolith.

\* Invalid answers the user gives before giving up.
MaxAsk == 2

\* The classes createDeployer builds.
CliImpls == {"Shokan", "Monolith"}

\* The [releaseId] argument: absent, or the name of a release.
CliArgs == {<<>>} \cup {TokenText(t) : t \in Tokens}

\* What the user types at the prompt.
Answers ==
  {<<"c">>, <<" ", "C", " ">>, <<"0">>, <<"1">>, <<"2">>, <<"2", "x">>,
   <<"9">>, <<"x">>, <<>>}

\* The release a name stands for (0: no release has that name).
TokenOf(text) ==
  IF \E t \in Tokens : TokenText(t) = text
  THEN CHOOSE t \in Tokens : TokenText(t) = text
  ELSE 0

\* String.prototype.trim and toLowerCase, on the characters of Answers.
RECURSIVE TrimStart(_)
TrimStart(s) == IF s # <<>> /\ Head(s) = " " THEN TrimStart(Tail(s)) ELSE s

Reverse(s) == [k \in DOMAIN s |-> s[Len(s) + 1 - k]]

TrimSpaces(s) == Reverse(TrimStart(Reverse(TrimStart(s))))

ToLowerCase(s) == [k \in DOMAIN s |-> IF s[k] = "C" THEN "c" ELSE s[k]]

IsDigit(c) == \E i \in DOMAIN Digits : Digits[i] = c

RECURSIVE NumberOf(_)
NumberOf(ds) ==
  IF ds = <<>> THEN 0
  ELSE 10 * NumberOf(SubSeq(ds, 1, Len(ds) - 1)) + DigitValue(ds[Len(ds)])

\* parseInt of an unsigned text: the number its leading digits spell,
\* after leading blanks; <<>> stands for NaN.
ParseInt(s) ==
  LET t == TrimStart(s)
      n == CHOOSE k \in 0..Len(t) :
             /\ \A j \in 1..k : IsDigit(t[j])
             /\ k < Len(t) => ~IsDigit(t[k + 1])
  IN IF n = 0 THEN <<>> ELSE <<NumberOf(SubSeq(t, 1, n))>>

\* A command that lists whatever it is given.
NeedsListingAlways(releaseId) == TRUE

\* if (!releaseId): no argument, so the releases are listed.
NeedsListing(releaseId) == releaseId = <<>>

\* switchVersion up to its first await: with a release id it calls
\* switchRelease, which returns once the handlers are registered; without
\* one it calls getReleaseIds.
switchVersion ==
  /\ cli.pc = "off"
  /\ \E i \in CliImpls, releaseId \in CliArgs :
       IF NeedsListing(releaseId)
       THEN /\ GetReleaseIds(i)
            /\ cli' = [cli EXCEPT !.pc = "listing", !.impl = i,
                                  !.arg = releaseId, !.events = {"list"}]
       ELSE /\ SwitchRelease(i, TokenOf(releaseId))
            /\ cli' = [cli EXCEPT !.pc = "exit", !.impl = i,
                                  !.arg = releaseId,
                                  !.calls = <<releaseId>>]

\* The promise of getReleaseIds is settled: rejected, the catch block logs
\* and returns; an empty list, the command returns; otherwise the list is
\* shown and the prompt opens.
switchVersionListed ==
  /\ cli.pc = "listing" /\ op = "releases" /\ pc = "done"
  /\ cli' =
       IF outcome = "rejected"
       THEN [cli EXCEPT !.pc = "exit", !.events = @ \cup {"listFailed"}]
       ELSE IF Len(releaseIds) = 0
       THEN [cli EXCEPT !.pc = "exit", !.events = @ \cup {"empty"}]
       ELSE [cli EXCEPT !.pc = "prompt", !.list = releaseIds]
  /\ UNCHANGED <<fsVars, runVars, now, opsDone, okRuns, cfgRetention,
                 unitVars>>

\* One answer at the prompt.  "c" cancels; a number within the list
\* resolves with that entry, and switchVersion goes on to switchRelease
\* unless the entry is empty; anything else asks again.
promptUserSelection ==
  /\ cli.pc = "prompt" /\ op = "idle"
  /\ \E answer \in Answers :
       LET n == ParseInt(answer)
           selectedIndex == IF n = <<>> THEN <<>> ELSE <<n[1] - 1>>
           valid == /\ selectedIndex # <<>>
                    /\ selectedIndex[1] >= 0
                    /\ selectedIndex[1] < Len(cli.list)
           chosen == cli.list[selectedIndex[1] + 1]
       IN
       IF ToLowerCase(TrimSpaces(answer)) = <<"c">>
       THEN /\ cli' = [cli EXCEPT !.pc = "exit",
                                  !.events = @ \cup {"cancel"}]
            /\ UNCHANGED <<fsVars, runVars, now, opsDone, okRuns,
                           cfgRetention, unitVars>>
       ELSE IF valid /\ chosen # <<>>
       THEN /\ SwitchRelease(cli.impl, TokenOf(chosen))
            /\ cli' = [cli EXCEPT !.pc = "exit",
                                  !.calls = Append(@, chosen)]
       ELSE /\ cli.asked < MaxAsk
            /\ cli' = [cli EXCEPT !.pc = IF valid THEN "exit" ELSE @,
                                  !.asked = @ + 1,
                                  !.events = @ \cup {"invalid"}]
            /\ UNCHANGED <<fsVars, runVars, now, opsDone, okRuns,
                           cfgRetention, unitVars>>

\* A project folder after deploy runs of the monolith at the times S.
Deployed(S) ==
  /\ sharedDirs = {"shared", "releases", "shared/public"}
  /\ releases = S
  /\ mtime = Reverse(SortedListing(S))
  /\ repo = S /\ revision = S
  /\ revisionTime = [t \in Stamps |-> IF t \in S THEN t ELSE 0]
  /\ nested = {}
  /\ current = CHOOSE t \in S : \A u \in S : u <= t
  /\ revisionsLog = [k \in 1..Cardinality(S) |->
                       DeployEntry(SortedListing(S)[k])]

\* The command is run on a fresh project folder or on a deployed one.
InitCli ==
  /\ \/ /\ sharedDirs = {} /\ releases = {} /\ mtime = <<>> /\ repo = {}
        /\ revision = {} /\ revisionTime = [t \in Stamps |-> 0]
        /\ nested = {} /\ current = 0 /\ revisionsLog = <<>>
     \/ \E S \in (SUBSET Tokens) \ {{}} : Deployed(S)
  /\ op = "idle" /\ impl = "Shokan" /\ pc = "idle" /\ deployVia = "git"
  /\ runToken = 0 /\ release = 0 /\ keepReleases = Releases
  /\ session = "none" /\ endCalls = 0 /\ depConn = FALSE /\ depToken = 0
  /\ outcome = "none" /\ handlerThrew = FALSE /\ allOk = TRUE
  /\ lastOk = TRUE /\ envOk = TRUE
  /\ issued = {} /\ attempted = <<>> /\ failed = {} /\ inFlight = {}
  /\ releaseIds = <<>> /\ reports = {}
  /\ pre = [current |-> 0, releases |-> {}, log |-> <<>>]
  /\ now = MaxTime /\ opsDone = 0 /\ okRuns = 0
  /\ cfgRetention = Releases
  /\ startedAt = <<>> /\ tokens = <<>>
  /\ cli = CliOff
  /\ exec = ExecOff
  /\ StepsOff

\* The command and the sessions of the two methods it calls; the result
\* of getReleaseIds is read before the operation is put away.
NextCli ==
  \/ switchVersion
  \/ switchVersionListed
  \/ promptUserSelection
  \/ establishConnection
  \/ getReleases
  \/ Finally
  \/ cli.pc # "listing" /\ Return

SpecCli == InitCli /\ [][NextCli]_vars

\* The entries of a list.
Elements(seq) == {seq[k] : k \in DOMAIN seq}

\* C21: with a release id the switch command calls switchRelease with that
\* id, without listing or prompting; without one, switchRelease is called
\* only with an entry of the list getReleaseIds returned, and not at all
\* when the user cancels, the list is empty or the listing fails.
C21_SwitchCommandSelection ==
  /\ cli.arg # <<>> =>
       /\ "list" \notin cli.events /\ cli.asked = 0 /\ cli.list = <<>>
       /\ cli.pc = "exit" => cli.calls = <<cli.arg>>
  /\ cli.arg = <<>> =>
       /\ Elements(cli.calls) \subseteq Elements(cli.list)
       /\ Len(cli.calls) <= 1
       /\ cli.events \cap {"cancel", "empty", "listFailed"} # {}
            => cli.calls = <<>>

\* The user picked a release at the second prompt and switchRelease runs.
C21_Witness ==
  /\ cli.arg = <<>> /\ cli.pc = "exit" /\ "invalid" \in cli.events
  /\ Len(cli.list) >= 2 /\ cli.calls = <<cli.list[2]>>
  /\ op = "switch" /\ release = TokenOf(cli.list[2])

----------------------------------------------------------------------------
\* Errors: the class of a thrown value and what the handlers make of it.

\* The class of the value a failing step throws: establishConnection
\* rejects with an SSHError, the executor with a plain Error.
Thrown(p) == IF p = "establishConnection" THEN "SSHError" ELSE "Error"

\* The classes handleError.js imports under the names it tests with
\* instanceof: both names are bound to the default export of
\* errors/DeploymentError.js.
HandleErrorImports ==
  [DeploymentError |-> "DeploymentError", SSHError |-> "DeploymentError"]

\* handleError(task, context, error) on an error value of class k: the
\* report it makes, or the TypeError of reading error.stdout when the third
\* argument is missing.
HandleError(k) ==
  IF k = "undefined" THEN "TypeError"
  ELSE IF k = HandleErrorImports.DeploymentError THEN "deployment"
  ELSE IF k = HandleErrorImports.SSHError THEN "connection"
  ELSE "generic"

\* The report made of a caught value of class k when deploy fails.  Shokan
\* calls errorhandler, a name nothing defines; Einsatz passes the error as
\* the second argument of handleError; the monolith prints the error of
\* the session with console.error.
Reported(i, k) ==
  CASE i = "Shokan" -> "ReferenceError"
    [] i \in Einsatzes -> HandleError("undefined")
    [] i = "Monolith" -> "generic"

\* The class of the error deploy() rejected with ("none": it did not).
RejectedWith ==
  IF outcome # "rejected" THEN "none"
  ELSE IF handlerThrew THEN Reported(impl, Thrown(attempted[1]))
  ELSE IF attempted = <<>> THEN "Error"
  ELSE Thrown(attempted[1])

\* C22: when the session cannot be established deploy fails with a
\* connection-kind error, the error handler reports it as one, no step of
\* the pipeline is attempted and nothing on the host changes.
C22_ConnectionErrorIsDistinct ==
  (op = "deploy" /\ pc = "done" /\ "establishConnection" \in failed) =>
    /\ RejectedWith = "SSHError"
    /\ Reported(impl, "SSHError") = "connection"
    /\ attempted = <<"establishConnection">> /\ issued = {}
    /\ releases = pre.releases /\ current = pre.current
    /\ revisionsLog = pre.log

----------------------------------------------------------------------------
\* The steps that re-point the current link: Promote of deploy, stage 2 of
\* rollback and stage 2 of switchRelease.
PointerSteps == {"symlinkRelease", "rollbackLink", "switchLink"}

\* C23: the target of the current link changes only in the Promote step of
\* deploy, in rollback and in switchRelease; every other step and
\* operation leaves it as it is.
C23_OnlyPointerStepsRepoint ==
  [][ current' # current =>
        /\ pc \in PointerSteps
        /\ op \in {"deploy", "rollback", "switch"} ]_vars

\* A deploy that materialized, stamped, cleaned up and logged a release
\* while its Promote step failed: the link is where it was.
C23_Witness ==
  /\ op = "deploy" /\ pc = "done"
  /\ "symlinkRelease" \in failed
  /\ {"materialize", "setCurrentRevision", "restartApplication",
      "cleanupOldReleases", "logRevision"} \subseteq (issued \ failed)
  /\ releases # pre.releases /\ revisionsLog # pre.log
  /\ current # 0 /\ current = pre.current

----------------------------------------------------------------------------
\* Retention: a project folder that holds as many releases as are kept.

\* The directories beside the releases after a deploy of Einsatz.
EinsatzDirs ==
  {"shared", "releases", "shared/public", "shared/cache", "shared/logs",
   "shared/secrets"}

\* A project folder after deploy runs of Einsatz at the times S, the
\* Promote step having succeeded last in the run at time c.
DeployedUpTo(S, c) ==
  /\ sharedDirs = EinsatzDirs
  /\ releases = S
  /\ mtime = Reverse(SortedListing(S))
  /\ repo = S /\ revision = S
  /\ revisionTime = [t \in Stamps |-> IF t \in S THEN t ELSE 0]
  /\ nested = {}
  /\ current = c
  /\ revisionsLog = [k \in 1..Cardinality(S) |->
                       DeployEntry(SortedListing(S)[k])]

\* The folder holds Releases releases and the clock stands at the next
\* token.
InitRetention ==
  /\ \E c \in 1..Releases : DeployedUpTo(1..Releases, c)
  /\ op = "idle" /\ impl = "Shokan" /\ pc = "idle" /\ deployVia = "git"
  /\ runToken = 0 /\ release = 0 /\ keepReleases = Releases
  /\ session = "none" /\ endCalls = 0 /\ depConn = FALSE /\ depToken = 0
  /\ outcome = "none" /\ handlerThrew = FALSE /\ allOk = TRUE
  /\ lastOk = TRUE /\ envOk = TRUE
  /\ issued = {} /\ attempted = <<>> /\ failed = {} /\ inFlight = {}
  /\ releaseIds = <<>> /\ reports = {}
  /\ pre = [current |-> 0, releases |-> {}, log |-> <<>>]
  /\ now = MaxStamp /\ opsDone = 0 /\ okRuns = 0
  /\ cfgRetention = Releases
  /\ startedAt = <<>> /\ tokens = <<>>
  /\ cli = CliOff
  /\ exec = ExecOff
  /\ StepsOff

\* Deploy runs and rollbacks, no switchRelease.
NextRetention ==
  \/ StartDeploy
  \/ StartRollback
  \/ establishConnection
  \/ testAgentForwarding
  \/ commandCloses
  \/ instantiate
  \/ checkDirectories
  \/ checkLinkedDirs
  \/ makeLinkedDirs
  \/ createReleaseDir
  \/ materialize
  \/ setCurrentRevision
  \/ setCurrentRevisionTime
  \/ symlinkLinkedFiles
  \/ symlinkLinkedDirs
  \/ npmConfig
  \/ npmInstall
  \/ assetsPrecompile
  \/ backupPackageJson
  \/ migrate
  \/ migrating
  \/ symlinkRelease
  \/ restartApplication
  \/ cleanupOldReleases
  \/ logRevision
  \/ symlinkPublicResources
  \/ CatchHandler
  \/ Finally
  \/ Return
  \/ rollbackGetReleases
  \/ rollbackLink
  \/ rollbackLog

SpecRetention == InitRetention /\ [][NextRetention]_vars

----------------------------------------------------------------------------
\* Sequence a is an initial part of sequence b.
IsPrefix(a, b) == Len(a) <= Len(b) /\ SubSeq(b, 1, Len(a)) = a

\* C25: revisions.log is append-only: no step rewrites, truncates or
\* removes entries, so what the log held before a deploy, rollback or
\* switch is a prefix of what it holds afterwards.
C25_LogIsAppendOnly ==
  [][ /\ IsPrefix(revisionsLog, revisionsLog')
      /\ op' \in {"deploy", "rollback", "switch"}
           => IsPrefix(pre'.log, revisionsLog') ]_vars

\* A deploy that added its line to a log that held one already.
C25_Witness ==
  /\ op = "deploy" /\ pc = "done"
  /\ "logRevision" \in (issued \ failed)
  /\ pre.log # <<>>
  /\ revisionsLog = Append(pre.log, DeployEntry(DirToken("logRevision")))

----------------------------------------------------------------------------
\* The remote executor and the step runner on their own: one call with
\* any exit code and any output of the remote process.

\* The step numbers tried.
MaxStep == 2

\* The exit codes of the remote process, what it wrote to stdout and what
\* it wrote to stderr.
ExitCodes == {0, 1, 128}

Outputs == {<<>>, <<"o", "k", "\n">>}

ErrOutputs == {<<>>, <<"f", "a", "t", "a", "l", "\n">>}

\* What a call settles with.
Resolved(value) == [settled |-> "resolved", value |-> value, error |-> NoError]

Rejected(error) == [settled |-> "rejected", value |-> None, error |-> error]

\* asyncWrapper of lib/utils: on close, a non-zero code rejects with
\* Error(`Command failed with code ${code}: ${stderrData.trim()}`), code 0
\* resolves with stdoutData.trim().
AsyncWrapper(code, out, err) ==
  IF code # 0
  THEN Rejected(ErrorValue("Error", <<code>>, <<Trim(err)>>, None, None,
                           None))
  ELSE Resolved(Trim(out))

\* The promise of GitDeployer.cloneRepo around git clone: a non-zero code
\* rejects with Error(`Command failed with code ${code}`).
CloneRepoExec(code, out, err) ==
  IF code # 0
  THEN Rejected(ErrorValue("Error", <<code>>, None, None, None, None))
  ELSE Resolved(Trim(out))

\* asyncWrapper of the monolith: a non-zero code rejects with
\* Error(`Command failed with code ${code}, signal ${signal}`); the
\* resolve that follows has no effect on a settled promise.
ShokanAsyncWrapper(code, out, err) ==
  IF code # 0
  THEN Rejected(ErrorValue("Error", <<code>>, None, None, None, None))
  ELSE Resolved(Trim(out))

\* _runDeploymentStep and executeCommand: log the command, await the
\* executor, log the success marker; on a failure log it and throw
\* Error(`Execution of step ${stepNumber} failed: ${error.message}`).
RunDeploymentStep(step, r) ==
  IF r.settled = "resolved"
  THEN [settled |-> "resolved", value |-> None, error |-> NoError,
        log |-> <<"command", "success">>]
  ELSE [settled |-> "rejected", value |-> None,
        error |-> ErrorValue("Error", r.error.code, r.error.stderr, None,
                             <<step>>, None),
        log |-> <<"command", "failed">>]

\* Stage 2 of switchRelease: try { log the command; await the executor }
\* catch { log the error } finally { log the success marker }.
SwitchStage(r) ==
  [settled |-> "resolved", value |-> None, error |-> NoError,
   log |-> <<"command">>
             \o (IF r.settled = "rejected" THEN <<"failed">> ELSE <<>>)
             \o <<"success">>]

\* One call of function fn settling with r and having logged log.
Call(fn, r, log) ==
  /\ exec.pc = "call"
  /\ exec' = [exec EXCEPT !.pc = "done", !.fn = fn, !.settled = r.settled,
                          !.value = r.value, !.error = r.error,
                          !.log = log]
  /\ UNCHANGED <<fsVars, runVars, now, opsDone, okRuns, cfgRetention,
                 clockVars, cli, stepVars>>

asyncWrapper ==
  Call("asyncWrapper", AsyncWrapper(exec.code, exec.stdout, exec.stderr),
       <<>>)

cloneRepo ==
  Call("cloneRepo", CloneRepoExec(exec.code, exec.stdout, exec.stderr),
       <<"command">>)

ShokanasyncWrapper ==
  Call("Shokan.asyncWrapper",
       ShokanAsyncWrapper(exec.code, exec.stdout, exec.stderr), <<>>)

runDeploymentStep ==
  LET r == RunDeploymentStep(
             exec.step, AsyncWrapper(exec.code, exec.stdout, exec.stderr))
  IN Call("_runDeploymentStep", r, r.log)

executeCommand ==
  LET r == RunDeploymentStep(
             exec.step, AsyncWrapper(exec.code, exec.stdout, exec.stderr))
  IN Call("executeCommand", r, r.log)

switchReleaseStage ==
  LET r == SwitchStage(AsyncWrapper(exec.code, exec.stdout, exec.stderr))
  IN Call("switchRelease", r, r.log)

\* Any exit code, any output, any step number.
InitExecutor ==
  /\ sharedDirs = {} /\ releases = {} /\ mtime = <<>> /\ repo = {}
  /\ revision = {} /\ revisionTime = [t \in Stamps |-> 0] /\ nested = {}
  /\ current = 0 /\ revisionsLog = <<>>
  /\ op = "idle" /\ impl = "Shokan" /\ pc = "idle" /\ deployVia = "git"
  /\ runToken = 0 /\ release = 0 /\ keepReleases = Releases
  /\ session = "none" /\ endCalls = 0 /\ depConn = FALSE /\ depToken = 0
  /\ outcome = "none" /\ handlerThrew = FALSE /\ allOk = TRUE
  /\ lastOk = TRUE /\ envOk = TRUE
  /\ issued = {} /\ attempted = <<>> /\ failed = {} /\ inFlight = {}
  /\ releaseIds = <<>> /\ reports = {}
  /\ pre = [current |-> 0, releases |-> {}, log |-> <<>>]
  /\ now = 1 /\ opsDone = 0 /\ okRuns = 0
  /\ cfgRetention = Releases
  /\ startedAt = <<>> /\ tokens = <<>>
  /\ cli = CliOff
  /\ StepsOff
  /\ \E c \in ExitCodes, o \in Outputs, e \in ErrOutputs, n \in 1..MaxStep :
       exec = [ExecOff EXCEPT !.pc = "call", !.code = c, !.stdout = o,
                              !.stderr = e, !.step = n]

NextExecutor ==
  \/ asyncWrapper
  \/ cloneRepo
  \/ ShokanasyncWrapper
  \/ runDeploymentStep
  \/ executeCommand
  \/ switchReleaseStage

SpecExecutor == InitExecutor /\ [][NextExecutor]_vars

\* The places that run a remote command themselves.
Executors == {"asyncWrapper", "cloneRepo", "Shokan.asyncWrapper"}

\* C26: wherever a remote command is run, the call resolves with the
\* command's output exactly when the exit code is 0, and for any other
\* code fails with an error carrying the code and the captured stderr.
C26_ExecutorReportsExit ==
  (exec.pc = "done" /\ exec.fn \in Executors) =>
    /\ (exec.settled = "resolved") <=> (exec.code = 0)
    /\ exec.code = 0 => exec.value = Trim(exec.stdout)
    /\ exec.code # 0 =>
         /\ exec.settled = "rejected"
         /\ exec.error.code = <<exec.code>>
         /\ exec.error.stderr = <<Trim(exec.stderr)>>

\* The functions that run one step: the command through the executor,
\* with the log lines around it.
StepRunners == {"_runDeploymentStep", "executeCommand"}

\* C27: when the executor fails the step runner does not swallow the
\* failure: it throws a DeploymentError carrying the task, the step index,
\* the underlying message and a timestamp.
C27_StepRunnerRaisesDeploymentError ==
  (exec.pc = "done" /\ exec.fn \in StepRunners /\ exec.code # 0) =>
    /\ exec.settled = "rejected"
    /\ exec.error.class = "DeploymentError"
    /\ exec.error.task # None
    /\ exec.error.step = <<exec.step>>
    /\ exec.error.code = <<exec.code>>
    /\ exec.error.timestamp # None

\* Position of the first occurrence of x in a log (0: none).
FirstAt(log, x) ==
  IF x \in Elements(log)
  THEN CHOOSE k \in DOMAIN log : log[k] = x /\ \A j \in 1..(k - 1) : log[j] # x
  ELSE 0

\* C28: a step logs its command before running it and its success marker
\* only after the command succeeded: a step whose command failed logs no
\* success marker, in deploy, rollback and switchRelease alike.
C28_SuccessMarkerOnlyOnSuccess ==
  (exec.pc = "done" /\ exec.fn \in StepRunners \cup {"switchRelease"}) =>
    /\ FirstAt(exec.log, "command") = 1
    /\ "success" \in Elements(exec.log) => exec.code = 0
    /\ exec.code = 0 => FirstAt(exec.log, "success") = 2

----------------------------------------------------------------------------
\* C29: the Git strategy pulls when releaseDir/.git exists on the target
\* host and clones when it does not, never both and never the other one.
C29_PullOrCloneByRemoteRepo ==
  [][ (/\ op = "deploy" /\ pc = "materialize" /\ pc' # pc
       /\ CanExec("materialize"))
        => IF DirToken("materialize") \in repo
           THEN "gitPull" \in issued' /\ "gitClone" \notin issued'
           ELSE "gitClone" \in issued' /\ "gitPull" \notin issued' ]_vars


\* ---------------------------------------------------------------------
\* C30: in every deploy run the strategy materializes the source into the
\* releases/<token> directory of the run and sends on the session the run
\* established, whenever the strategy object was constructed: at the step
\* that materializes the source, the token in the strategy object's
\* release directory is the token of the run, and the strategy object
\* holds the session exactly if the orchestrator holds an open one.
C30_StrategySharesDirAndSession ==
  [][ (/\ op = "deploy" /\ pc = "materialize" /\ pc' # pc
       /\ UsesDeployer(impl, "materialize"))
        => /\ DirToken("materialize") = runToken
           /\ depConn = (session = "open") ]_vars


----------------------------------------------------------------------------
\* The directories the fixed links of a release point at, and the one the
\* public-resource step lists: the targets of symlinkLinkedFiles and
\* symlinkLinkedDirs, and shared/public.
SharedResourceSet ==
  {"shared/cache", "shared/logs", "shared/secrets", "shared/public",
   "shared/media/uploads"}

\* The three directory-preparation steps of deploy ran and none failed.
DirectoriesPrepared ==
  /\ op = "deploy"
  /\ \A k \in DOMAIN Directories :
       Directories[k] \in Elements(attempted) \ failed

\* C31: after the three directory-preparation steps of deploy have
\* succeeded, every directory of the shared resource set exists on the
\* host (shared/cache, shared/logs, shared/secrets, shared/public,
\* shared/media/uploads).
C31_SharedResourceSetExists ==
  DirectoriesPrepared => SharedResourceSet \subseteq sharedDirs


----------------------------------------------------------------------------
\* The public-resource linking step on its own: symlinkPublicResources
\* called on a session for a release directory, with shared/public holding
\* any entries and every command free to fail.

\* The names an entry of shared/public can have.
ResourceNames == {<<"a">>, <<"b">>, <<"c">>}

\* What shared/public can hold, in the order find prints it.
PublicListings ==
  UNION {{e \in [1..n -> ResourceNames] :
            \A i \in 1..n, j \in 1..n : i # j => e[i] # e[j]}
         : n \in 0..Cardinality(ResourceNames)}

\* `${projectFolder}/shared/public`
sharedPublicDir ==
  <<"/", "a", "p", "p", "/", "s", "h", "a", "r", "e", "d", "/", "p", "u",
    "b", "l", "i", "c">>

\* `${releaseDir}/public`
releasePublicDir(t) ==
  ReleasesPath \o TokenText(t) \o <<"/", "p", "u", "b", "l", "i", "c">>

\* The output of find <dir> -mindepth 1 -maxdepth 1: one line per entry,
\* the path of the entry; nothing for an empty directory.
RECURSIVE FindOutput(_)
FindOutput(entries) ==
  IF entries = <<>> THEN <<>>
  ELSE sharedPublicDir \o <<"/">> \o Head(entries) \o <<"\n">>
         \o FindOutput(Tail(entries))

\* String.prototype.trim: white space removed at both ends.
RECURSIVE StringTrimStart(_)
StringTrimStart(s) ==
  IF s # <<>> /\ Head(s) \in {" ", "\n"} THEN StringTrimStart(Tail(s)) ELSE s

StringTrim(s) == Reverse(StringTrimStart(Reverse(StringTrimStart(s))))

\* resource.split("/").pop()
ResourceName(resource) ==
  LET parts == Split(resource, "/") IN parts[Len(parts)]

\* ln -s <resource> <releasePublicDir>/<resourceName>
LinkCommand(t, resource) ==
  [target |-> resource,
   link |-> releasePublicDir(t) \o <<"/">> \o ResourceName(resource)]

\* The listing: find through asyncWrapper, the result trimmed and split
\* into lines.  A failed find is caught, logged and thrown again.
listResources ==
  /\ pub.pc = "find"
  /\ \E code \in ExitCodes :
       LET r == AsyncWrapper(code, FindOutput(pub.entries), <<>>) IN
       pub' = IF r.settled = "resolved"
              THEN [pub EXCEPT !.pc = "link",
                               !.resources =
                                  Split(StringTrim(r.value), "\n")]
              ELSE [pub EXCEPT !.pc = "done", !.settled = "rejected"]
  /\ UNCHANGED <<nonStepVars, xfer, runs>>

\* One turn of the loop: the link command of the next resource; a failed
\* command ends the loop through the catch block, the last one that
\* succeeds ends the step.
linkResource ==
  /\ pub.pc = "link"
  /\ \E ok \in BOOLEAN :
       LET k == Len(pub.commands) + 1
           sent == Append(pub.commands,
                          LinkCommand(pub.token, pub.resources[k]))
       IN
       pub' = IF ~ok
              THEN [pub EXCEPT !.pc = "done", !.commands = sent,
                               !.settled = "rejected"]
              ELSE IF k = Len(pub.resources)
              THEN [pub EXCEPT !.pc = "done", !.commands = sent,
                               !.settled = "resolved"]
              ELSE [pub EXCEPT !.commands = sent]
  /\ UNCHANGED <<nonStepVars, xfer, runs>>

InitPublic ==
  /\ sharedDirs = {} /\ releases = {} /\ mtime = <<>> /\ repo = {}
  /\ revision = {} /\ revisionTime = [t \in Stamps |-> 0] /\ nested = {}
  /\ current = 0 /\ revisionsLog = <<>>
  /\ op = "idle" /\ impl = "Shokan" /\ pc = "idle" /\ deployVia = "git"
  /\ runToken = 0 /\ release = 0 /\ keepReleases = Releases
  /\ session = "none" /\ endCalls = 0 /\ depConn = FALSE /\ depToken = 0
  /\ outcome = "none" /\ handlerThrew = FALSE /\ allOk = TRUE
  /\ lastOk = TRUE /\ envOk = TRUE
  /\ issued = {} /\ attempted = <<>> /\ failed = {} /\ inFlight = {}
  /\ releaseIds = <<>> /\ reports = {}
  /\ pre = [current |-> 0, releases |-> {}, log |-> <<>>]
  /\ now = 1 /\ opsDone = 0 /\ okRuns = 0
  /\ cfgRetention = Releases
  /\ startedAt = <<>> /\ tokens = <<>>
  /\ cli = CliOff
  /\ exec = ExecOff
  /\ xfer = XferOff /\ runs = RunsOff
  /\ \E t \in Tokens, e \in PublicListings :
       pub = [PubOff EXCEPT !.pc = "find", !.token = t, !.entries = e]

NextPublic == listResources \/ linkResource

SpecPublic == InitPublic /\ [][NextPublic]_vars

\* The link command the step owes to entry x of shared/public.
LinkOf(t, x) ==
  [target |-> sharedPublicDir \o <<"/">> \o x,
   link |-> releasePublicDir(t) \o <<"/">> \o x]

\* C32: the public-resource linking step sends exactly one link command
\* per top-level entry of shared/public, linking it into releaseDir/public
\* under the same name; with shared/public empty it sends no link command
\* and reports no error.
C32_OneLinkPerPublicEntry ==
  (pub.pc = "done" /\ pub.resources # <<>>) =>
    /\ pub.settled = "resolved" =>
         pub.commands = [k \in DOMAIN pub.entries |->
                           LinkOf(pub.token, pub.entries[k])]
    /\ pub.entries = <<>> =>
         pub.commands = <<>> /\ pub.settled = "resolved"


----------------------------------------------------------------------------
\* Deploy runs with the key "copy".

\* What the promise of the transfer can do.
Settlements == {"resolved", "rejected", "pending"}

\* gitLocalClone of the monolith in the pipeline: the content of the local
\* .git directory goes to the release directory over SFTP.  The promise
\* resolves, rejects or stays pending (see the transfer on its own, below);
\* the release directory may have been made before a rejection, and what
\* arrived may or may not be a repository with a HEAD.
gitLocalClone ==
  /\ op = "deploy" /\ pc = "gitLocalClone"
  /\ \E result \in Settlements, made \in BOOLEAN, head \in BOOLEAN :
       LET t == DirToken("gitLocalClone")
           done == result = "resolved"
           there == done \/ (made /\ result = "rejected")
       IN
       /\ result = "pending" => t \notin releases
       /\ pc' = IF result = "pending" THEN "hung"
                ELSE IF done THEN Succ(impl, deployVia, "gitLocalClone")
                ELSE "catch"
       /\ Record("gitLocalClone", done)
       /\ allOk' = (allOk /\ done) /\ lastOk' = done
       /\ envOk' = (envOk /\ done)
       /\ releases' = IF there THEN releases \cup {t} ELSE releases
       /\ mtime' = IF there THEN Touch(mtime, t) ELSE mtime
       /\ repo' = IF done /\ head THEN repo \cup {t} ELSE repo
  /\ UNCHANGED <<sharedDirs, revision, revisionTime, nested, current,
                 revisionsLog, stepConst, session, endCalls, depConn,
                 depToken, issued>>

StartCopy == \E i \in Impls : Deploy(i, "copy")

NextCopy ==
  \/ Tick
  \/ StartCopy
  \/ establishConnection
  \/ testAgentForwarding
  \/ commandCloses
  \/ instantiate
  \/ checkDirectories
  \/ checkLinkedDirs
  \/ makeLinkedDirs
  \/ gitLocalClone
  \/ createReleaseDir
  \/ setCurrentRevision
  \/ setCurrentRevisionTime
  \/ symlinkLinkedFiles
  \/ symlinkLinkedDirs
  \/ npmConfig
  \/ npmInstall
  \/ assetsPrecompile
  \/ backupPackageJson
  \/ migrate
  \/ migrating
  \/ symlinkRelease
  \/ restartApplication
  \/ cleanupOldReleases
  \/ logRevision
  \/ symlinkPublicResources
  \/ CatchHandler
  \/ Finally
  \/ Return

SpecCopy == Init /\ [][NextCopy]_vars

\* C33: when the Copy strategy produced no revision (the release directory
\* holds no repository to read HEAD from), the revision stamping step does
\* not abort the pipeline: the run goes on to the step after it.
C33_EmptyRevisionTolerated ==
  [][ (/\ op = "deploy" /\ deployVia = "copy"
       /\ pc = "setCurrentRevision" /\ pc' # pc
       /\ DirToken("setCurrentRevision") \notin repo)
        => pc' = Succ(impl, deployVia, "setCurrentRevision") ]_vars


----------------------------------------------------------------------------
\* The transfer of the Copy strategy on its own: CopyDeployer.deploy and
\* gitLocalClone of the monolith, called with any local tree, any state of
\* the remote release path and every callback free to report an error.

\* Bounds of the local tree: files in the top directory, files in its one
\* subdirectory.
MaxFiles == 2
MaxSubFiles == 2

RootFiles == <<"f1", "f2">>

SubFiles == <<"g1", "g2">>

\* What sftp.stat finds at the remote release path.
RemotePaths == {"absent", "dir", "file", "error"}

CopyFns == {"CopyDeployer.deploy", "gitLocalClone"}

LocalTrees ==
  {tr \in [files : 0..MaxFiles, sub : BOOLEAN, subFiles : 0..MaxSubFiles] :
     ~tr.sub => tr.subFiles = 0}

\* fs.readdir(src): the names in a directory of the tree.
Entries(tr, d) ==
  IF d = "root"
  THEN {RootFiles[k] : k \in 1..tr.files}
         \cup (IF tr.sub THEN {"sub"} ELSE {})
  ELSE {SubFiles[k] : k \in 1..tr.subFiles}

\* The directories and the files of the tree.
Dirs(tr) == {"root"} \cup (IF tr.sub THEN {"sub"} ELSE {})

Files(tr) == (Entries(tr, "root") \cup Entries(tr, "sub")) \ {"sub"}

\* A callback that is due.
Due(o, d, e) == [op |-> o, dir |-> d, entry |-> e]

\* The callback handed to copyFiles for the top directory: reject(err) or
\* log and resolve(); a promise settles once.
CbRoot(x, err) ==
  [x EXCEPT !.cb.root = @ + 1,
            !.settled = IF @ # "pending" THEN @
                        ELSE IF err THEN "rejected" ELSE "resolved"]

\* if (--remaining === 0) cb(), in the top directory.
DecRoot(x) ==
  LET y == [x EXCEPT !.remaining.root = @ - 1]
  IN IF y.remaining.root = 0 THEN CbRoot(y, FALSE) ELSE y

\* The callback handed to copyFiles for the subdirectory:
\* () => { if (--remaining === 0) cb(); }, which takes no argument.
CbSub(x, err) == DecRoot([x EXCEPT !.cb.sub = @ + 1])

DecSub(x) ==
  LET y == [x EXCEPT !.remaining.sub = @ - 1]
  IN IF y.remaining.sub = 0 THEN CbSub(y, FALSE) ELSE y

Cb(x, d, err) == IF d = "root" THEN CbRoot(x, err) ELSE CbSub(x, err)

Dec(x, d) == IF d = "root" THEN DecRoot(x) ELSE DecSub(x)

\* copyFiles(src, dest, cb): fs.readdir is called.
CopyFiles(x, d) ==
  [x EXCEPT !.pc = "copy", !.due = @ \cup {Due("readdir", d, d)}]

\* An error reported to a callback.
Failed(x) == [x EXCEPT !.errors = @ + 1]

\* The promise rejected outside the recursion.
Reject(x) == [x EXCEPT !.pc = "done", !.settled = "rejected"]

\* CopyDeployer.deploy reads releaseDir, which neither its parameters nor
\* the module declare: the async method rejects before the promise of the
\* transfer is made.
CopyDeployerDeploy ==
  /\ xfer.pc = "call" /\ xfer.fn = "CopyDeployer.deploy"
  /\ xfer' = Reject(xfer)
  /\ UNCHANGED <<nonStepVars, pub, runs>>

\* conn.sftp((err, sftp) => ...)
connSftp ==
  /\ xfer.pc = "call" /\ xfer.fn = "gitLocalClone"
  /\ \E ok \in BOOLEAN :
       xfer' = IF ok THEN [xfer EXCEPT !.pc = "stat"] ELSE Reject(xfer)
  /\ UNCHANGED <<nonStepVars, pub, runs>>

\* sftp.stat(remoteRepoDir, (err, stats) => ...): absent (code 2), another
\* error, a directory; for anything else no branch is taken.
sftpStat ==
  /\ xfer.pc = "stat"
  /\ xfer' = CASE xfer.remote = "absent" -> [xfer EXCEPT !.pc = "mkdir"]
               [] xfer.remote = "error" -> Reject(xfer)
               [] xfer.remote = "dir" -> CopyFiles(xfer, "root")
               [] OTHER -> [xfer EXCEPT !.pc = "copy"]
  /\ UNCHANGED <<nonStepVars, pub, runs>>

\* sftp.mkdir(remoteRepoDir, ...) of the absent release directory.
sftpMkdir ==
  /\ xfer.pc = "mkdir"
  /\ \E ok \in BOOLEAN :
       xfer' = IF ok THEN CopyFiles(xfer, "root") ELSE Reject(xfer)
  /\ UNCHANGED <<nonStepVars, pub, runs>>

\* The callback of fs.readdir.
readdir ==
  \E o \in xfer.due :
    /\ o.op = "readdir"
    /\ \E ok \in BOOLEAN :
         LET x == [xfer EXCEPT !.due = @ \ {o}]
             files == Entries(x.tree, o.dir)
         IN
         xfer' = IF ~ok THEN Cb(Failed(x), o.dir, TRUE)
                 ELSE IF files = {} THEN Cb(x, o.dir, FALSE)
                 ELSE [x EXCEPT
                         !.remaining[o.dir] = Cardinality(files),
                         !.due = @ \cup {Due("stat", o.dir, f) : f \in files}]
    /\ UNCHANGED <<nonStepVars, pub, runs>>

\* The callback of fs.stat for one entry: a directory is made on the host,
\* a file is piped into a write stream.
fsStat ==
  \E o \in xfer.due :
    /\ o.op = "stat"
    /\ \E ok \in BOOLEAN :
         LET x == [xfer EXCEPT !.due = @ \ {o}] IN
         xfer' = IF ~ok THEN Cb(Failed(x), o.dir, TRUE)
                 ELSE [x EXCEPT
                         !.due = @ \cup
                           {Due(IF o.entry = "sub" THEN "mkdir" ELSE "pipe",
                                o.dir, o.entry)}]
    /\ UNCHANGED <<nonStepVars, pub, runs>>

\* The callback of sftp.mkdir for a subdirectory.
entryMkdir ==
  \E o \in xfer.due :
    /\ o.op = "mkdir"
    /\ \E ok \in BOOLEAN :
         LET x == [xfer EXCEPT !.due = @ \ {o}] IN
         xfer' = IF ~ok THEN Cb(Failed(x), o.dir, TRUE)
                 ELSE CopyFiles(x, o.entry)
    /\ UNCHANGED <<nonStepVars, pub, runs>>

\* The "close" event of a write stream.
writeStreamClose ==
  \E o \in xfer.due :
    /\ o.op = "pipe"
    /\ xfer' = Dec([xfer EXCEPT !.due = @ \ {o},
                                !.closed = @ \cup {o.entry}], o.dir)
    /\ UNCHANGED <<nonStepVars, pub, runs>>

\* The read stream fails: pipe leaves the write stream open, nothing
\* listens for the error, "close" never comes.
readStreamError ==
  \E o \in xfer.due :
    /\ o.op = "pipe"
    /\ xfer' = Failed([xfer EXCEPT !.due = @ \ {o}])
    /\ UNCHANGED <<nonStepVars, pub, runs>>

InitTransfer ==
  /\ sharedDirs = {} /\ releases = {} /\ mtime = <<>> /\ repo = {}
  /\ revision = {} /\ revisionTime = [t \in Stamps |-> 0] /\ nested = {}
  /\ current = 0 /\ revisionsLog = <<>>
  /\ op = "idle" /\ impl = "Shokan" /\ pc = "idle" /\ deployVia = "git"
  /\ runToken = 0 /\ release = 0 /\ keepReleases = Releases
  /\ session = "none" /\ endCalls = 0 /\ depConn = FALSE /\ depToken = 0
  /\ outcome = "none" /\ handlerThrew = FALSE /\ allOk = TRUE
  /\ lastOk = TRUE /\ envOk = TRUE
  /\ issued = {} /\ attempted = <<>> /\ failed = {} /\ inFlight = {}
  /\ releaseIds = <<>> /\ reports = {}
  /\ pre = [current |-> 0, releases |-> {}, log |-> <<>>]
  /\ now = 1 /\ opsDone = 0 /\ okRuns = 0
  /\ cfgRetention = Releases
  /\ startedAt = <<>> /\ tokens = <<>>
  /\ cli = CliOff
  /\ exec = ExecOff
  /\ pub = PubOff /\ runs = RunsOff
  /\ \E fn \in CopyFns, r \in RemotePaths, tr \in LocalTrees :
       xfer = [XferOff EXCEPT !.pc = "call", !.fn = fn, !.remote = r,
                              !.tree = tr]

NextTransfer ==
  \/ CopyDeployerDeploy
  \/ connSftp
  \/ sftpStat
  \/ sftpMkdir
  \/ readdir
  \/ fsStat
  \/ entryMkdir
  \/ writeStreamClose
  \/ readStreamError

SpecTransfer == InitTransfer /\ [][NextTransfer]_vars

\* Every callback that is due arrives.
SpecTransferLive == SpecTransfer /\ WF_vars(NextTransfer)

\* C34: the materialization of the Copy strategy always terminates: for
\* every state of the remote release path and every outcome of the file
\* transfers the returned promise is eventually resolved or rejected.
C34_CopyAlwaysSettles == <>(xfer.settled # "pending")


\* C35: the recursive transfer calls the completion callback of a
\* directory at most once, once for each directory when the promise is
\* resolved, and the promise is resolved only when every file of the local
\* tree has been transferred and no error was reported at any depth.
C35_CallbackOncePerDirectory ==
  /\ \A d \in {"root", "sub"} : xfer.cb[d] <= 1
  /\ xfer.settled = "resolved" =>
       /\ \A d \in Dirs(xfer.tree) : xfer.cb[d] = 1
       /\ xfer.closed = Files(xfer.tree)
       /\ xfer.errors = 0


----------------------------------------------------------------------------
\* The operation in progress has re-pointed the current link: the Promote
\* step of a deploy ran and succeeded; the link command of a rollback or
\* a switch changed what current names.
Repointed ==
  IF op = "deploy"
  THEN "symlinkRelease" \in Elements(attempted) \ failed
  ELSE current # pre.current

----------------------------------------------------------------------------
\* The steps of deploy that send nothing to the host.
LocalSteps ==
  {"instantiate", "npmConfig", "assetsPrecompile", "backupPackageJson",
   "migrate", "migrating", "disconnect"}

\* C37: within one deploy run the session is closed at most once, and no
\* step sends a remote command after the session has been closed; a failed
\* clone or pull does not close the session while later steps are still
\* to run.
C37_NoCommandAfterClose ==
  op = "deploy" =>
    /\ endCalls <= 1
    /\ \A j \in DOMAIN attempted, k \in DOMAIN attempted :
         (j < k /\ attempted[j] = "disconnect")
           => attempted[k] \in LocalSteps \ {"disconnect"}


----------------------------------------------------------------------------
\* Two deploy runs against the same project folder, each on its own
\* session, their steps interleaved in any order.  Of the pipeline the
\* steps that act on releases/ and on the current link are modelled; the
\* others write inside the run's own release directory.  No step looks at
\* the other run: the code takes no lock.

\* Run r goes to step p, or ends when the step failed (every step of the
\* strategy pipeline is fatal).
RunTo(r, p, done) ==
  runs' = [runs EXCEPT ![r].pc = IF done THEN p ELSE "done",
                       ![r].ok = done]

\* What a run leaves alone.
runConst == <<runVars, now, opsDone, okRuns, cfgRetention, clockVars, cli,
              exec, pub, xfer>>

\* establishConnection, then the timestamp of the run.
runConnect(r) ==
  /\ runs[r].pc = "idle"
  /\ \E ok \in BOOLEAN :
       runs' = [runs EXCEPT ![r].pc = IF ok THEN "createReleaseDir"
                                      ELSE "done",
                            ![r].ok = ok,
                            ![r].token = IF ok THEN now ELSE 0]
  /\ UNCHANGED <<fsVars, runConst>>

\* mkdir -p releases/<token>
runCreateReleaseDir(r) ==
  /\ runs[r].pc = "createReleaseDir"
  /\ \E ok \in BOOLEAN :
       LET t == runs[r].token
           made == MkdirP(releases, {t})
           done == ok /\ made.ok
       IN
       /\ RunTo(r, "materialize", done)
       /\ releases' = IF done THEN made.dirs ELSE releases
       /\ mtime' = IF done /\ t \notin releases THEN <<t>> \o mtime
                   ELSE mtime
       /\ sharedDirs' = IF done THEN sharedDirs \cup {"releases"}
                        ELSE sharedDirs
  /\ UNCHANGED <<repo, revision, revisionTime, nested, current,
                 revisionsLog, runConst>>

\* git clone into the release directory.
runMaterialize(r) ==
  /\ runs[r].pc = "materialize"
  /\ \E ok \in BOOLEAN :
       LET t == runs[r].token
           done == ok /\ CanClone(t)
       IN
       /\ RunTo(r, "symlinkRelease", done)
       /\ repo' = IF done THEN repo \cup {t} ELSE repo
       /\ mtime' = IF done THEN Touch(mtime, t) ELSE mtime
  /\ UNCHANGED <<sharedDirs, releases, revision, revisionTime, nested,
                 current, revisionsLog, runConst>>

\* Promote: ln -sfn releaseDir current.
runSymlinkRelease(r) ==
  /\ runs[r].pc = "symlinkRelease"
  /\ \E ok \in BOOLEAN :
       /\ RunTo(r, "cleanupOldReleases", ok)
       /\ current' = IF ok THEN LnSfn(runs[r].token) ELSE current
  /\ UNCHANGED <<sharedDirs, releases, mtime, repo, revision, revisionTime,
                 nested, revisionsLog, runConst>>

\* Cleanup with this.releases as keepCount, then the run is over.
runCleanupOldReleases(r) ==
  /\ runs[r].pc = "cleanupOldReleases"
  /\ \E ok \in BOOLEAN :
       /\ runs' = [runs EXCEPT ![r].pc = "done", ![r].ok = ok]
       /\ IF ok THEN RemoveReleases(CleanupVictims(mtime, Releases))
          ELSE UNCHANGED <<releases, mtime, repo, revision, revisionTime,
                           nested>>
  /\ UNCHANGED <<sharedDirs, current, revisionsLog, runConst>>

InitRace ==
  /\ sharedDirs = {} /\ releases = {} /\ mtime = <<>> /\ repo = {}
  /\ revision = {} /\ revisionTime = [t \in Stamps |-> 0] /\ nested = {}
  /\ current = 0 /\ revisionsLog = <<>>
  /\ op = "idle" /\ impl = "Shokan" /\ pc = "idle" /\ deployVia = "git"
  /\ runToken = 0 /\ release = 0 /\ keepReleases = Releases
  /\ session = "none" /\ endCalls = 0 /\ depConn = FALSE /\ depToken = 0
  /\ outcome = "none" /\ handlerThrew = FALSE /\ allOk = TRUE
  /\ lastOk = TRUE /\ envOk = TRUE
  /\ issued = {} /\ attempted = <<>> /\ failed = {} /\ inFlight = {}
  /\ releaseIds = <<>> /\ reports = {}
  /\ pre = [current |-> 0, releases |-> {}, log |-> <<>>]
  /\ now = 1 /\ opsDone = 0 /\ okRuns = 0
  /\ cfgRetention = Releases
  /\ startedAt = <<>> /\ tokens = <<>>
  /\ cli = CliOff
  /\ exec = ExecOff
  /\ pub = PubOff /\ xfer = XferOff
  /\ runs = [r \in Runs |-> [pc |-> "idle", token |-> 0, ok |-> TRUE]]

NextRace ==
  \/ Tick
  \/ \E r \in Runs : runConnect(r)
  \/ \E r \in Runs : runCreateReleaseDir(r)
  \/ \E r \in Runs : runMaterialize(r)
  \/ \E r \in Runs : runSymlinkRelease(r)
  \/ \E r \in Runs : runCleanupOldReleases(r)

SpecRace == InitRace /\ [][NextRace]_vars

\* Run r has just re-pointed the link.
Promoted(r) ==
  runs[r].pc = "symlinkRelease" /\ runs'[r].pc = "cleanupOldReleases"

\* C38: no lock is taken on the project folder, so two concurrent deploy
\* runs race on the current link: whenever a run's Promote succeeds the
\* link names that run's release, whatever it named before and wherever
\* the other run is, so the run that promotes last wins and the link can
\* end on the release with the lesser token.
C38_LastPromoteWins ==
  [][ \A r \in Runs : Promoted(r) => current' = runs[r].token ]_vars

\* Both runs completed every step, and the link names the release with
\* the lesser token.
C38_Witness ==
  /\ \A r \in Runs : runs[r].pc = "done" /\ runs[r].ok
  /\ \E r \in Runs, q \in Runs :
       runs[r].token < runs[q].token /\ current = runs[r].token


----------------------------------------------------------------------------
\* C39: an unknown deploy-via key is detected before the session is
\* opened: in no run with an unknown key is a connection to the host
\* attempted.
C39_UnknownKeyBeforeConnect ==
  (op = "deploy" /\ deployVia \notin deployerMapping) =>
    /\ pc # "establishConnection"
    /\ "establishConnection" \notin Elements(attempted)


----------------------------------------------------------------------------
\* Every operation on a project folder that holds Releases releases: the
\* next deploy is the one whose Cleanup has something to remove.
NextLifecycle ==
  \/ NextRetention
  \/ StartSwitch
  \/ StartGetReleaseIds
  \/ switchGetCurrent
  \/ switchLink
  \/ switchLog
  \/ getReleases

SpecLifecycle == InitRetention /\ [][NextLifecycle]_vars

\* C40: release directories are removed only by the Cleanup step of
\* deploy: rollback, switchRelease, getReleaseIds and every other deploy
\* step leave the set of directories under releases/ as it was, except
\* that a deploy adds the one release directory of the run.
C40_OnlyCleanupRemovesReleases ==
  [][ /\ releases \ releases' # {} =>
           op = "deploy" /\ pc = "cleanupOldReleases"
      /\ releases' \ releases # {} =>
           /\ op = "deploy" /\ pc # "cleanupOldReleases"
           /\ releases' \ releases = {DirToken(pc)} ]_vars

\* A switchRelease that ran to its end, its link command sent, with the
\* directories as it found them, in a folder where an earlier deploy added
\* its release and its Cleanup removed the oldest one.
C40_Witness ==
  /\ op = "switch" /\ pc = "done" /\ "switchLink" \in issued
  /\ releases = pre.releases
  /\ MaxStamp \in releases /\ 1 \notin releases

====
